---- MODULE Spec2Model ----
(***************************************************************************)
(* State-machine model of the Stronghold facade (client/src/interface.rs). *)
(*                                                                         *)
(* A Stronghold value is a clonable handle on one Registry actor.  Every   *)
(* facade method is a sequence of request/response exchanges with the      *)
(* Registry, a SecureClient worker or the Snapshot actor.  An actor        *)
(* handles one message at a time, and the caller is suspended until the    *)
(* reply arrives, so one exchange (send, handle, reply, and the caller's   *)
(* local code up to its next send) is one atomic step of the model.  Calls *)
(* made through different clones of the handle interleave between          *)
(* exchanges.                                                              *)
(***************************************************************************)
EXTENDS Integers, Sequences, FiniteSets, TLC

\* ---------------------------------------------------------------- bounds
NumHandles == 2      \* clones of the Stronghold handle that issue calls
NumPaths == 2        \* distinct client paths
MaxWorkers == 2      \* SecureClient actors alive at a time
NumRecords == 2      \* record paths inside the vault path
NumPayloads == 1     \* distinct payloads
NumKeys == 1         \* distinct keys of a store
NumValues == 2       \* distinct values of a store entry
NumPeers == 2        \* remote peers
MaxNetActors == 2    \* NetworkActor actors alive at a time

\* ------------------------------------------------------ program constants
KeySize == 32        \* let mut key: [u8; 32] = [0u8; 32]

Handles == 1..NumHandles
Paths == 1..NumPaths
Addrs == 1..MaxWorkers
VaultPaths == {1}
RecordPaths == 1..NumRecords
Payloads == 1..NumPayloads
Locations == VaultPaths \X RecordPaths
StoreKeys == 1..NumKeys
StoreValues == 1..NumValues
Procedures == {"succeeds", "fails"}
Peers == 1..NumPeers
NetAddrs == 1..MaxNetActors

\* The variants of ShRequest that the remote operations send.
Variants ==
    {"CheckVault", "CreateVault", "WriteToRemoteVault", "WriteToStore",
     "ReadFromStore", "ListIds", "CallProcedure"}

\* Rule<ShRequest>, as the set of the variants it allows: allow all, reject
\* all, and a rule restricted to reading the store.  (Rules that ask are
\* not modelled.)
AllowAll == Variants
RejectAll == {}
ReadOnly == {"ReadFromStore"}
Rules == {AllowAll, RejectAll, ReadOnly}
Directions == {"Inbound", "Outbound"}

NoAddr == 0          \* Option<Addr<SecureClient>>::None
NoPath == 0          \* Option<Vec<u8>>::None, the former_client_path not given
DefaultFile == 0     \* filename None and path None: the default snapshot file
NoId == <<>>         \* Option<ClientId>::None
NoValue == 0         \* Option<Vec<u8>>::None, no value under the key
RegistryAddr == 0    \* addressee of a message to the Registry or the Snapshot actor

\* ClientId::load_from_path(data, path): deterministic and collision free.
load_from_path(data, path) == <<data, path>>

Ids == {load_from_path(p, p) : p \in Paths}

EmptyFn == [x \in {} |-> 0]

Put(f, k, v) == [x \in DOMAIN f \cup {k} |-> IF x = k THEN v ELSE f[x]]

\* The state a SecureClient owns: the keys of its vaults, the records of
\* its vaults, which of the records are revoked, and its store.
EmptyData == [keystore |-> {}, db |-> EmptyFn, revoked |-> {}, store |-> EmptyFn]

\* A started SecureClient.  (The actor also keeps its own copy of its client
\* id; no handler modelled here reads it, and it is left out.)
NewWorker(id) == [alive |-> TRUE, data |-> EmptyData]

VARIABLES
    registry_up,     \* a Registry has been started (init_stronghold_system)
    clients,         \* Registry: ClientId -> Addr<SecureClient> (NoAddr: absent)
    current_target,  \* Registry: Option<ClientId>
    workers,         \* Addr -> the SecureClient actor behind it
    snap_state,      \* Snapshot actor: ClientId -> state filled in so far
    files,           \* snapshot files on disk: name -> [key, state]
    pc,              \* per handle: the exchange its call performs next
    call,            \* per handle: arguments and locals of its call
    ret,             \* per handle: what its last call returned
    sent,            \* per handle: the messages its running call has sent
    network,         \* Registry: Option<Addr<NetworkActor>>
    net_actors,      \* NetAddr -> the NetworkActor behind it, with its firewall
    inbound          \* what the network actor did with the last inbound request

vars == <<registry_up, clients, current_target, workers, snap_state,
          files, pc, call, ret, sent, network, net_actors, inbound>>

\* ------------------------------------------------------------- results
\* A call's result: Ok, Err(e), or a panic of the calling task.
Ok == [tag |-> "Ok", err |-> ""]
\* Ok(v), for the calls that return a value.
OkVal(v) == [tag |-> "Ok", err |-> "", val |-> v]
Err(e) == [tag |-> "Err", err |-> e]
Panic(why) == [tag |-> "Panic", err |-> why]

\* What a handle's last call returned; "none" while a call is running.
NoRet == [op |-> "none", res |-> [tag |-> "None", err |-> ""]]

Msg(m, to) == [msg |-> m, to |-> to]

\* Arguments and locals of a call; all of them at their defaults when idle.
NoCall ==
    [op |-> "none", client_id |-> NoId, former_id |-> NoId, kill_actor |-> FALSE,
     location |-> <<>>, payload |-> 0, keydata |-> [len |-> 0, byte |-> 0],
     key |-> [len |-> 0, byte |-> 0], file |-> 0,
     target |-> NoAddr, clients |-> <<>>, data |-> EmptyData,
     listed |-> {}, filled |-> EmptyFn, should_gc |-> FALSE,
     key_ |-> 0, proc |-> "",
     net |-> NoAddr, rule |-> RejectAll, peers |-> <<>>, set_default |-> FALSE,
     peer |-> 0, exists |-> FALSE, entry_target |-> NoId]

NoWorker == [alive |-> FALSE, data |-> EmptyData]

\* A NetworkActor: its firewall table has at most one default rule per
\* direction (default: direction -> rule) and at most one rule per peer and
\* direction (rules: <<peer, direction>> -> rule).
NoActor == [alive |-> FALSE, default |-> EmptyFn, rules |-> EmptyFn]

\* No inbound request yet.
NoInbound == [peer |-> 0, variant |-> "", forwarded |-> FALSE]

\* ------------------------------------------------------------ Registry
\* The Registry actor's handlers.  Each is the whole handling of one
\* message: the state change, and separately the reply.

\* An actor lives while an Addr to it is held: by the Registry's directory
\* or by a running call (its target, or its list of clients).
Held(a, cl, cs) ==
    \/ \E id \in Ids : cl[id] = a
    \/ \E g \in Handles : cs[g].target = a
    \/ \E g \in Handles : \E i \in 1..Len(cs[g].clients) : cs[g].clients[i][2] = a

\* The actors left once the Addrs no longer held are dropped.
Reap(w, cl, cs) == [a \in Addrs |-> IF Held(a, cl, cs) THEN w[a] ELSE NoWorker]

HasFreeAddr == \E a \in Addrs : ~Held(a, clients, call)

\* The address a newly started actor for id gets: any address no live actor
\* has.  (Which one is immaterial; the choice made here keeps an identity
\* at the same address whenever that address is free.)
FreeAddr(id) ==
    IF id[2] \in Addrs /\ ~Held(id[2], clients, call)
    THEN id[2]
    ELSE CHOOSE a \in Addrs :
           ~Held(a, clients, call) /\ \A b \in 1..(a - 1) : Held(b, clients, call)

\* The address of the first actor of a fresh Registry.
FirstAddr(id) == IF id[2] \in Addrs THEN id[2] ELSE CHOOSE a \in Addrs : \A b \in Addrs : a <= b

\* SpawnClient: registers a new worker unless the identity has one.
SpawnClient(id) ==
    IF clients[id] # NoAddr
    THEN UNCHANGED <<clients, workers>>
    ELSE /\ clients' = [clients EXCEPT ![id] = FreeAddr(id)]
         /\ workers' = [workers EXCEPT ![FreeAddr(id)] = NewWorker(id)]

\* SwitchTarget: Some(addr) and the target moved, or None and nothing moved.
SwitchTargetReply(id) == clients[id]

SwitchTarget(id) ==
    current_target' = IF clients[id] # NoAddr THEN id ELSE current_target

\* GetTarget: the worker of the current target, if there is one.
GetTarget ==
    IF current_target = NoId THEN NoAddr ELSE clients[current_target]

\* GetClient: the worker of an identity, if there is one.
GetClient(id) == clients[id]

\* RemoveClient: takes the worker out of the directory and replies with it;
\* a removed current target leaves no target.
RemoveClient(id) ==
    /\ clients' = [clients EXCEPT ![id] = NoAddr]
    /\ current_target' = IF current_target = id THEN NoId ELSE current_target

\* GetAllClients: the directory as a list of (identity, addr), in the
\* directory's iteration order, which is any order.
IsListOf(l, S) ==
    /\ Len(l) = Cardinality(S)
    /\ {l[i] : i \in 1..Len(l)} = S

Registered == {id \in Ids : clients[id] # NoAddr}

GetAllClients ==
    {l \in [1..Cardinality(Registered) -> {<<id, clients[id]>> : id \in Registered}] :
        IsListOf(l, {<<id, clients[id]>> : id \in Registered})}

\* --------------------------------------------------------------- facade
\* An ok_or that takes None for a worker: nothing to do, and no error.
silently_ok(reply) == Ok

\* A target() that does not look at the reply of the Registry.
target_unchecked(reply) == Ok

\* Option::ok_or(Error::ActorNotSpawned) on a reply of the Registry.
ok_or_ActorNotSpawned(reply) ==
    IF reply = NoAddr THEN Err("ActorNotSpawned") ELSE Ok

\* A switch_client that takes every reply of the Registry for a worker.
switch_client_unchecked(reply) == Ok

\* Stronghold::switch_client: the result of the SwitchTarget exchange.
switch_client(reply) == ok_or_ActorNotSpawned(reply)

\* Stronghold::target: the result of the GetTarget exchange.
target(reply) == ok_or_ActorNotSpawned(reply)

\* A send to a worker fails with a MailboxError when its actor has stopped.
Delivered(addr) == workers[addr].alive

Idle(h) == pc[h] = "idle"

Initialising == \E g \in Handles : call[g].op = "init_stronghold_system"

\* A method can be called on a handle once init_stronghold_system returned it.
CanCall(h) == registry_up /\ Idle(h) /\ ~Initialising

\* The call's first exchange is done: its frame is set up.
Begin(h, c, first, next) ==
    /\ call' = [call EXCEPT ![h] = c]
    /\ sent' = [sent EXCEPT ![h] = {first}]
    /\ ret' = [ret EXCEPT ![h] = NoRet]
    /\ pc' = [pc EXCEPT ![h] = next]

\* The call goes on to its next exchange.
Goto(h, m, next) ==
    /\ sent' = [sent EXCEPT ![h] = @ \cup {m}]
    /\ pc' = [pc EXCEPT ![h] = next]
    /\ UNCHANGED ret

\* The call returns r to its caller; its frame is gone.
Return(h, op, r) ==
    /\ ret' = [ret EXCEPT ![h] = [op |-> op, res |-> r]]
    /\ pc' = [pc EXCEPT ![h] = "idle"]
    /\ call' = [call EXCEPT ![h] = NoCall]
    /\ sent' = [sent EXCEPT ![h] = {}]

Returned(h, op, r) == ret[h] = [op |-> op, res |-> r]

\* init_stronghold_system: starts a fresh Registry (and with it a fresh
\* Snapshot actor), then spawns the first client as spawn_stronghold_actor
\* does.  The files on disk outlive the Registry.
init_stronghold_system(h, p) ==
    /\ \A g \in Handles : Idle(g)
    /\ registry_up' = TRUE
    /\ clients' = [id \in Ids |-> IF id = load_from_path(p, p) THEN FirstAddr(id) ELSE NoAddr]
    /\ workers' = [a \in Addrs |-> IF a = FirstAddr(load_from_path(p, p))
                                   THEN NewWorker(load_from_path(p, p)) ELSE NoWorker]
    /\ current_target' = NoId
    /\ snap_state' = EmptyFn
    /\ call' = [g \in Handles |->
                 IF g = h
                 THEN [NoCall EXCEPT !.op = "init_stronghold_system",
                                     !.client_id = load_from_path(p, p)]
                 ELSE NoCall]
    /\ sent' = [g \in Handles |-> IF g = h THEN {Msg("SpawnClient", RegistryAddr)} ELSE {}]
    /\ ret' = [g \in Handles |-> NoRet]
    /\ pc' = [pc EXCEPT ![h] = "spawn_SwitchTarget"]
    /\ network' = NoAddr
    /\ net_actors' = [a \in NetAddrs |-> NoActor]
    /\ inbound' = NoInbound
    /\ UNCHANGED files

\* spawn_stronghold_actor, first exchange: SpawnClient.
spawn_stronghold_actor(h, p) ==
    /\ CanCall(h)
    /\ clients[load_from_path(p, p)] = NoAddr => HasFreeAddr
    /\ SpawnClient(load_from_path(p, p))
    /\ Begin(h, [NoCall EXCEPT !.op = "spawn_stronghold_actor",
                               !.client_id = load_from_path(p, p)],
             Msg("SpawnClient", RegistryAddr), "spawn_SwitchTarget")
    /\ UNCHANGED <<network, net_actors, inbound, registry_up,
                   current_target, snap_state, files>>

\* A spawn_stronghold_actor that returns Ok whatever switch_client said.
spawn_match_ok(r) == Ok

\* The match at the end of spawn_stronghold_actor: any error of
\* switch_client other than a mailbox error reaches unreachable!().
spawn_match(r) ==
    IF r.tag = "Ok" THEN Ok
    ELSE IF r.err = "ActorMailbox" THEN r
    ELSE Panic("unreachable")

\* spawn_stronghold_actor, second exchange: switch_client(client_id).
spawn_SwitchTarget(h) ==
    /\ pc[h] = "spawn_SwitchTarget"
    /\ SwitchTarget(call[h].client_id)
    /\ Return(h, call[h].op, spawn_match(switch_client(SwitchTargetReply(call[h].client_id))))
    /\ UNCHANGED <<network, net_actors, inbound, registry_up,
                   clients, workers, snap_state, files>>

\* switch_actor_target: one exchange, switch_client(client_id).
switch_actor_target(h, p) ==
    /\ CanCall(h)
    /\ SwitchTarget(load_from_path(p, p))
    /\ Return(h, "switch_actor_target", switch_client(SwitchTargetReply(load_from_path(p, p))))
    /\ UNCHANGED <<network, net_actors, inbound, registry_up,
                   clients, workers, snap_state, files>>

\* kill_stronghold, first exchange: RemoveClient when kill_actor, else
\* GetClient; None ends the call with ActorNotSpawned.
kill_stronghold(h, p, kill_actor) ==
    /\ CanCall(h)
    /\ IF kill_actor
       THEN RemoveClient(load_from_path(p, p))
       ELSE UNCHANGED <<clients, current_target>>
    /\ IF GetClient(load_from_path(p, p)) = NoAddr
       THEN Return(h, "kill_stronghold", ok_or_ActorNotSpawned(NoAddr))
       ELSE Begin(h, [NoCall EXCEPT !.op = "kill_stronghold",
                                    !.client_id = load_from_path(p, p),
                                    !.kill_actor = kill_actor,
                                    !.target = GetClient(load_from_path(p, p))],
                  Msg(IF kill_actor THEN "RemoveClient" ELSE "GetClient", RegistryAddr),
                  "kill_ClearCache")
    /\ workers' = Reap(workers, clients', call')
    /\ UNCHANGED <<network, net_actors, inbound, registry_up, snap_state, files>>

\* ClearCache: the worker drops its decrypted secrets; its vaults, records
\* and store stay.
ClearCache(w) == w

\* kill_stronghold, second exchange: ClearCache to the worker.
kill_ClearCache(h) ==
    /\ pc[h] = "kill_ClearCache"
    /\ Return(h, call[h].op, IF Delivered(call[h].target) THEN Ok ELSE Err("ActorMailbox"))
    /\ workers' = Reap([workers EXCEPT ![call[h].target] = ClearCache(@)], clients, call')
    /\ UNCHANGED <<network, net_actors, inbound, registry_up,
                   clients, current_target, snap_state, files>>

\* --------------------------------------------------------- SecureClient
\* The handlers of a SecureClient, on the state d the actor owns.

\* CheckVault: whether the worker has a vault at the vault path.
CheckVault(d, vault_path) == vault_path \in d.keystore

\* CreateVault: creates the vault if absent; a vault that exists, and its
\* records, are left as they are.
CreateVault(d, location) == [d EXCEPT !.keystore = @ \cup {location[1]}]

\* WriteToVault: writes or overwrites the record; VaultError when the vault
\* does not exist.
WriteToVaultReply(d, location) ==
    IF location[1] \in d.keystore THEN Ok ELSE Err("Inner(VaultError)")

WriteToVault(d, location, payload) ==
    IF location[1] \in d.keystore
    THEN [d EXCEPT !.db = Put(@, location, payload), !.revoked = @ \ {location}]
    ELSE d

\* A call that resolves the target again for each message it sends.
target_again(h) == GetTarget

\* `let target = self.target().await?`: the worker the call resolved, to
\* which each `target.send(..)` of the call goes.
target_of_call(h) == call[h].target

\* write_to_vault, first exchange: target().
write_to_vault(h, location, payload) ==
    /\ CanCall(h)
    /\ IF GetTarget = NoAddr
       THEN Return(h, "write_to_vault", target(GetTarget))
       ELSE Begin(h, [NoCall EXCEPT !.op = "write_to_vault",
                                    !.location = location,
                                    !.payload = payload,
                                    !.target = GetTarget],
                  Msg("GetTarget", RegistryAddr), "wtv_CheckVault")
    /\ UNCHANGED <<network, net_actors, inbound, registry_up,
                   clients, current_target, workers, snap_state, files>>

\* A write_to_vault that creates the vault when the check found one.
create_if_exists(vault_exists) == vault_exists

\* write_to_vault: `if !vault_exists`, the vault is created before the write.
create_if_absent(vault_exists) == ~vault_exists

\* write_to_vault, second exchange: CheckVault on the resolved target.
wtv_CheckVault(h) ==
    /\ pc[h] = "wtv_CheckVault"
    /\ IF ~Delivered(call[h].target)
       THEN /\ Return(h, call[h].op, Err("ActorMailbox"))
            /\ workers' = Reap(workers, clients, call')
       ELSE /\ Goto(h, Msg("CheckVault", call[h].target),
                    IF create_if_absent(CheckVault(workers[call[h].target].data,
                                                   call[h].location[1]))
                    THEN "wtv_CreateVault" ELSE "wtv_WriteToVault")
            /\ UNCHANGED <<call, workers>>
    /\ UNCHANGED <<network, net_actors, inbound, registry_up,
                   clients, current_target, snap_state, files>>

\* write_to_vault, the exchange taken when the vault was absent: CreateVault.
wtv_CreateVault(h) ==
    /\ pc[h] = "wtv_CreateVault"
    /\ IF ~Delivered(call[h].target)
       THEN /\ Return(h, call[h].op, Err("ActorMailbox"))
            /\ workers' = Reap(workers, clients, call')
       ELSE /\ Goto(h, Msg("CreateVault", call[h].target), "wtv_WriteToVault")
            /\ workers' = [workers EXCEPT ![target_of_call(h)].data =
                             CreateVault(@, call[h].location)]
            /\ UNCHANGED call
    /\ UNCHANGED <<network, net_actors, inbound, registry_up,
                   clients, current_target, snap_state, files>>

\* write_to_vault, last exchange: WriteToVault; its VaultError is returned
\* as Error::Inner.
wtv_WriteToVault(h) ==
    /\ pc[h] = "wtv_WriteToVault"
    /\ IF ~Delivered(call[h].target)
       THEN /\ Return(h, call[h].op, Err("ActorMailbox"))
            /\ workers' = Reap(workers, clients, call')
       ELSE /\ Return(h, call[h].op,
                      WriteToVaultReply(workers[call[h].target].data, call[h].location))
            /\ workers' = Reap([workers EXCEPT ![target_of_call(h)].data =
                                  WriteToVault(@, call[h].location, call[h].payload)],
                               clients, call')
    /\ UNCHANGED <<network, net_actors, inbound, registry_up,
                   clients, current_target, snap_state, files>>

\* The records of a vault that are stored, and those of them that are live.
Stored(d, vault_path) == {l \in DOMAIN d.db : l[1] = vault_path}
Live(d, vault_path) == Stored(d, vault_path) \ d.revoked

\* CheckRecord: whether the record at the location can be read.
CheckRecord(d, location) == location \in Live(d, location[1])

\* RevokeData: marks the record as revoked; it stays in storage.
\* VaultError when the vault does not exist.
RevokeDataReply(d, location) ==
    IF location[1] \in d.keystore THEN Ok ELSE Err("Inner(VaultError)")

RevokeData(d, location) ==
    IF location[1] \in d.keystore
    THEN [d EXCEPT !.revoked = @ \cup ({location} \cap DOMAIN d.db)]
    ELSE d

\* GarbageCollect: removes the revoked records of the location's vault from
\* storage.  VaultDoesNotExist when the vault path is unknown.
GarbageCollectReply(d, location) ==
    IF location[1] \in d.keystore THEN Ok ELSE Err("Inner(VaultDoesNotExist)")

GarbageCollect(d, location) ==
    IF location[1] \in d.keystore
    THEN [d EXCEPT !.db = [l \in DOMAIN d.db \ (Stored(d, location[1]) \cap d.revoked)
                               |-> d.db[l]],
                   !.revoked = @ \ Stored(d, location[1])]
    ELSE d

\* ListIds: the live records of the vault (the order of the list, and the
\* hints, are not modelled).  VaultDoesNotExist when the vault is unknown.
ListIds(d, vault_path) ==
    IF vault_path \in d.keystore
    THEN OkVal(Live(d, vault_path))
    ELSE Err("Inner(VaultDoesNotExist)")

\* The first exchange of a call that works on the current target: target().
\* None ends the call with ActorNotSpawned.
FirstTarget(h, c, next) ==
    /\ CanCall(h)
    /\ IF GetTarget = NoAddr
       THEN Return(h, c.op, target(GetTarget))
       ELSE Begin(h, [c EXCEPT !.target = GetTarget],
                  Msg("GetTarget", RegistryAddr), next)
    /\ UNCHANGED <<network, net_actors, inbound, registry_up,
                   clients, current_target, workers, snap_state, files>>

\* The last exchange of a call, with the worker it resolved: the worker
\* handles the message (its state becomes d) and the call returns the reply;
\* a stopped worker gives a mailbox error.
LastExchange(h, at, reply, d) ==
    /\ pc[h] = at
    /\ IF ~Delivered(call[h].target)
       THEN /\ Return(h, call[h].op, Err("ActorMailbox"))
            /\ workers' = Reap(workers, clients, call')
       ELSE /\ Return(h, call[h].op, reply)
            /\ workers' = Reap([workers EXCEPT ![target_of_call(h)].data = d], clients, call')
    /\ UNCHANGED <<network, net_actors, inbound, registry_up,
                   clients, current_target, snap_state, files>>

\* The empty record path of the location garbage_collect builds.
NoRecord == 0

\* delete_data, first exchange: target().
delete_data(h, location, should_gc) ==
    FirstTarget(h, [NoCall EXCEPT !.op = "delete_data", !.location = location,
                                  !.should_gc = should_gc], "dd_RevokeData")

\* A delete_data that collects garbage whatever should_gc says.
gc_always(should_gc) == TRUE

\* delete_data: `if should_gc`.
gc_if(should_gc) == should_gc

\* delete_data, second exchange: RevokeData; its error is returned as
\* Error::Inner, and without should_gc the call ends here.
dd_RevokeData(h) ==
    /\ pc[h] = "dd_RevokeData"
    /\ IF ~Delivered(call[h].target)
       THEN /\ Return(h, call[h].op, Err("ActorMailbox"))
            /\ workers' = Reap(workers, clients, call')
       ELSE /\ IF RevokeDataReply(workers[call[h].target].data, call[h].location) = Ok
                  /\ gc_if(call[h].should_gc)
               THEN Goto(h, Msg("RevokeData", call[h].target), "dd_GarbageCollect")
                    /\ UNCHANGED call
               ELSE Return(h, call[h].op,
                           RevokeDataReply(workers[call[h].target].data, call[h].location))
            /\ workers' = Reap([workers EXCEPT ![target_of_call(h)].data =
                                  RevokeData(@, call[h].location)], clients, call')
    /\ UNCHANGED <<network, net_actors, inbound, registry_up,
                   clients, current_target, snap_state, files>>

\* delete_data, third exchange: GarbageCollect for the location.
dd_GarbageCollect(h) ==
    LastExchange(h, "dd_GarbageCollect",
                 GarbageCollectReply(workers[call[h].target].data, call[h].location),
                 GarbageCollect(workers[call[h].target].data, call[h].location))

\* garbage_collect, first exchange: target().
garbage_collect(h, vault_path) ==
    FirstTarget(h, [NoCall EXCEPT !.op = "garbage_collect",
                                  !.location = <<vault_path, NoRecord>>],
                "gc_GarbageCollect")

\* garbage_collect, second exchange: GarbageCollect for the vault path.
gc_GarbageCollect(h) ==
    LastExchange(h, "gc_GarbageCollect",
                 GarbageCollectReply(workers[call[h].target].data, call[h].location),
                 GarbageCollect(workers[call[h].target].data, call[h].location))

\* list_hints_and_ids, first exchange: target().
list_hints_and_ids(h, vault_path) ==
    FirstTarget(h, [NoCall EXCEPT !.op = "list_hints_and_ids",
                                  !.location = <<vault_path, NoRecord>>],
                "lh_ListIds")

\* list_hints_and_ids, second exchange: ListIds.
lh_ListIds(h) ==
    LastExchange(h, "lh_ListIds",
                 ListIds(workers[call[h].target].data, call[h].location[1]),
                 workers[call[h].target].data)

\* record_exists, first exchange: target().
record_exists(h, location) ==
    FirstTarget(h, [NoCall EXCEPT !.op = "record_exists", !.location = location],
                "re_CheckRecord")

\* A record_exists that asks for the vault, as vault_exists does.
asks_CheckVault(d, location) == CheckVault(d, location[1])

\* record_exists: the request it sends is CheckRecord { location }.
asks_CheckRecord(d, location) == CheckRecord(d, location)

\* record_exists, second exchange: CheckRecord.
re_CheckRecord(h) ==
    LastExchange(h, "re_CheckRecord",
                 OkVal(asks_CheckRecord(workers[call[h].target].data, call[h].location)),
                 workers[call[h].target].data)

\* vault_exists, first exchange: target().
vault_exists(h, vault_path) ==
    FirstTarget(h, [NoCall EXCEPT !.op = "vault_exists",
                                  !.location = <<vault_path, NoRecord>>],
                "ve_CheckVault")

\* vault_exists, second exchange: CheckVault.
ve_CheckVault(h) ==
    LastExchange(h, "ve_CheckVault",
                 OkVal(CheckVault(workers[call[h].target].data, call[h].location[1])),
                 workers[call[h].target].data)

\* ReadFromStore: the value under the key, if any.
ReadFromStore(d, k) == IF k \in DOMAIN d.store THEN d.store[k] ELSE NoValue

\* WriteToStore: sets the value under the key and replies with the value
\* that was there.  (Entries are written without a lifetime.)
WriteToStore(d, k, v) == [d EXCEPT !.store = Put(@, k, v)]

\* DeleteFromStore: removes the entry.
DeleteFromStore(d, k) == [d EXCEPT !.store = [x \in DOMAIN d.store \ {k} |-> d.store[x]]]

\* CallProcedure: Ok(ProcResult), or an error when the procedure fails.
\* (What a procedure does to the vaults is not modelled.)
CallProcedure(d, proc) ==
    IF proc = "succeeds" THEN OkVal("ProcResult") ELSE Err("procedure")

\* Result::unwrap_or_else(ProcResult::Error).
unwrap_or_else_ProcResult_Error(r) ==
    IF r.tag = "Ok" THEN r.val ELSE "ProcResult::Error"

\* write_to_store, first exchange: target().
write_to_store(h, k, v) ==
    FirstTarget(h, [NoCall EXCEPT !.op = "write_to_store", !.key_ = k, !.payload = v],
                "wts_WriteToStore")

\* A write_to_store that always reports that the key is new.
existing_none(previous) == NoValue

\* write_to_store: Ok(existing), the reply of the worker.
existing(previous) == previous

\* write_to_store, second exchange: WriteToStore.
wts_WriteToStore(h) ==
    LastExchange(h, "wts_WriteToStore",
                 OkVal(existing(ReadFromStore(workers[call[h].target].data, call[h].key_))),
                 WriteToStore(workers[call[h].target].data, call[h].key_, call[h].payload))

\* read_from_store, first exchange: target().
read_from_store(h, k) ==
    FirstTarget(h, [NoCall EXCEPT !.op = "read_from_store", !.key_ = k],
                "rfs_ReadFromStore")

\* read_from_store, second exchange: ReadFromStore.
rfs_ReadFromStore(h) ==
    LastExchange(h, "rfs_ReadFromStore",
                 OkVal(ReadFromStore(workers[call[h].target].data, call[h].key_)),
                 workers[call[h].target].data)

\* delete_from_store, first exchange: target().
delete_from_store(h, k) ==
    FirstTarget(h, [NoCall EXCEPT !.op = "delete_from_store", !.key_ = k],
                "dfs_DeleteFromStore")

\* delete_from_store, second exchange: DeleteFromStore.
dfs_DeleteFromStore(h) ==
    LastExchange(h, "dfs_DeleteFromStore", Ok,
                 DeleteFromStore(workers[call[h].target].data, call[h].key_))

\* runtime_exec, first exchange: target().
runtime_exec(h, proc) ==
    FirstTarget(h, [NoCall EXCEPT !.op = "runtime_exec", !.proc = proc],
                "rx_CallProcedure")

\* runtime_exec, second exchange: CallProcedure; a failure of the procedure
\* comes back as Ok(ProcResult::Error).
rx_CallProcedure(h) ==
    LastExchange(h, "rx_CallProcedure",
                 OkVal(unwrap_or_else_ProcResult_Error(
                          CallProcedure(workers[call[h].target].data, call[h].proc))),
                 workers[call[h].target].data)

\* GetData: the full state of the worker.
GetData(d) == d

\* ReloadData: the worker's state is replaced by the data, under the id.
ReloadData(w, data, id) == [w EXCEPT !.data = data]

\* ------------------------------------------------------- Snapshot actor
\* A snapshot file holds the state of the workers by identity, sealed
\* under the key: it opens under that key and no other.
Seal(key, state) == [key |-> key, state |-> state]

\* FillSnapshot: one more (identity, state) pair is accumulated.
FillSnapshot(acc, id, data) == Put(acc, id, data)

\* WriteSnapshot: the accumulated structure is sealed and persisted, and
\* the accumulation starts anew.
WriteSnapshot(fs, acc, key, file) == Put(fs, file, Seal(key, acc))

\* ReadFromSnapshot: decrypts the file and locates the identity's state.
ReadFromSnapshot(fs, key, file, id) ==
    IF file \notin DOMAIN fs THEN [res |-> Err("Inner(Io)"), data |-> EmptyData, id |-> id]
    ELSE IF fs[file].key # key
         THEN [res |-> Err("Inner(DecryptionError)"), data |-> EmptyData, id |-> id]
    ELSE IF id \notin DOMAIN fs[file].state
         THEN [res |-> Err("Inner(IdentityNotFound)"), data |-> EmptyData, id |-> id]
    ELSE [res |-> Ok, data |-> fs[file].state[id], id |-> id]

\* ------------------------------------------------- facade: snapshots
\* A byte buffer whose bytes are all the same: its length and that byte.
\* Caller key data of len bytes, each byte b.
KeyData(len, b) == [len |-> len, byte |-> b]

\* let mut key: [u8; 32] = [0u8; 32]
ZeroKey == [len |-> KeySize, byte |-> 0]

\* <[u8]>::copy_from_slice panics unless both slices have the same length.
copy_from_slice_panics(dst, src) == src.len # dst.len

\* Otherwise every byte of dst becomes the byte of src at its place.
copy_from_slice(dst, src) == [len |-> dst.len, byte |-> src.byte]

\* A write_all_to_snapshot that gathers the current target only.
clients_of_target ==
    IF GetTarget = NoAddr THEN {<<>>} ELSE {<< <<current_target, GetTarget>> >>}

\* write_all_to_snapshot: the list the loop goes through is the reply of
\* GetAllClients.
clients_to_snapshot == GetAllClients

\* write_all_to_snapshot, first exchange: GetAllClients; then the key is
\* copied and the Snapshot actor's address fetched (GetSnapshot changes
\* nothing and always answers the same, so it is part of this step).
write_all_to_snapshot(h, keydata, file) ==
    /\ CanCall(h)
    /\ IF copy_from_slice_panics(ZeroKey, keydata)
       THEN /\ Return(h, "write_all_to_snapshot", Panic("copy_from_slice"))
            /\ UNCHANGED workers
       ELSE \E l \in clients_to_snapshot :
              /\ Begin(h, [NoCall EXCEPT !.op = "write_all_to_snapshot",
                                         !.keydata = keydata,
                                         !.key = copy_from_slice(ZeroKey, keydata),
                                         !.file = file,
                                         !.clients = l,
                                         !.listed = Registered],
                       Msg("GetAllClients", RegistryAddr),
                       IF l = <<>> THEN "wats_WriteSnapshot" ELSE "wats_GetData")
              /\ UNCHANGED workers
    /\ UNCHANGED <<network, net_actors, inbound, registry_up,
                   clients, current_target, snap_state, files>>

\* A loop that goes on with an empty state when a worker did not answer.
goes_on_regardless(delivered) == TRUE

\* `client.send(GetData {}).await?`: the loop goes on only with an answer.
goes_on_after_GetData(delivered) == delivered

\* write_all_to_snapshot, loop: GetData to the next client of the list.
wats_GetData(h) ==
    /\ pc[h] = "wats_GetData"
    /\ IF ~goes_on_after_GetData(Delivered(call[h].clients[1][2]))
       THEN /\ Return(h, call[h].op, Err("ActorMailbox"))
            /\ workers' = Reap(workers, clients, call')
       ELSE /\ Goto(h, Msg("GetData", call[h].clients[1][2]), "wats_FillSnapshot")
            /\ call' = [call EXCEPT ![h].data =
                          IF Delivered(call[h].clients[1][2])
                          THEN GetData(workers[call[h].clients[1][2]].data)
                          ELSE EmptyData]
            /\ UNCHANGED workers
    /\ UNCHANGED <<network, net_actors, inbound, registry_up,
                   clients, current_target, snap_state, files>>

\* write_all_to_snapshot, loop: FillSnapshot with the data and the id.
wats_FillSnapshot(h) ==
    /\ pc[h] = "wats_FillSnapshot"
    /\ snap_state' = FillSnapshot(snap_state, call[h].clients[1][1], call[h].data)
    /\ Goto(h, Msg("FillSnapshot", RegistryAddr),
            IF Len(call[h].clients) = 1 THEN "wats_WriteSnapshot" ELSE "wats_GetData")
    /\ call' = [call EXCEPT ![h].clients = Tail(@),
                            ![h].data = EmptyData,
                            ![h].filled = Put(@, call[h].clients[1][1], call[h].data)]
    /\ workers' = Reap(workers, clients, call')
    /\ UNCHANGED <<network, net_actors, inbound, registry_up,
                   clients, current_target, files>>

\* write_all_to_snapshot, last exchange: WriteSnapshot.
wats_WriteSnapshot(h) ==
    /\ pc[h] = "wats_WriteSnapshot"
    /\ files' = WriteSnapshot(files, snap_state, call[h].key, call[h].file)
    /\ snap_state' = EmptyFn
    /\ Return(h, call[h].op, Ok)
    /\ UNCHANGED <<network, net_actors, inbound, registry_up,
                   clients, current_target, workers>>

\* A read_snapshot that takes the current target whatever former path it got.
ignores_former(former_id) == FALSE

\* read_snapshot: `if let Some(id) = former_client_id`.
uses_former(former_id) == former_id # NoId

\* read_snapshot, first exchange: switch_client(former id) when a former
\* path is given, else target(); then the key is copied and the Snapshot
\* actor's address fetched.
read_snapshot(h, p, former, keydata, file) ==
    LET client_id == load_from_path(p, p)
        former_id == IF former = NoPath THEN NoId ELSE load_from_path(former, former)
        reply == IF uses_former(former_id) THEN SwitchTargetReply(former_id) ELSE GetTarget
        first == IF uses_former(former_id) THEN switch_client(reply) ELSE target(reply)
    IN  /\ CanCall(h)
        /\ IF uses_former(former_id)
           THEN SwitchTarget(former_id)
           ELSE UNCHANGED current_target
        /\ IF first # Ok
           THEN Return(h, "read_snapshot", first)
           ELSE IF copy_from_slice_panics(ZeroKey, keydata)
           THEN Return(h, "read_snapshot", Panic("copy_from_slice"))
           ELSE Begin(h, [NoCall EXCEPT !.op = "read_snapshot",
                                        !.client_id = client_id,
                                        !.former_id = former_id,
                                        !.keydata = keydata,
                                        !.key = copy_from_slice(ZeroKey, keydata),
                                        !.file = file,
                                        !.target = reply,
                                        !.entry_target = current_target],
                      Msg(IF uses_former(former_id) THEN "SwitchTarget" ELSE "GetTarget",
                          RegistryAddr),
                      "rs_ReadFromSnapshot")
        /\ UNCHANGED <<network, net_actors, inbound, registry_up,
                       clients, workers, snap_state, files>>

\* A read_snapshot that reloads the worker whatever the Snapshot actor said.
reloads_regardless(res) == TRUE

\* `.await?.map_err(Error::Inner)?`: the worker is reloaded only after a
\* successful read.
reloads_after(res) == res = Ok

\* read_snapshot, second exchange: ReadFromSnapshot.
rs_ReadFromSnapshot(h) ==
    LET r == ReadFromSnapshot(files, call[h].key, call[h].file, call[h].client_id)
    IN  /\ pc[h] = "rs_ReadFromSnapshot"
        /\ IF ~reloads_after(r.res)
           THEN /\ Return(h, call[h].op, r.res)
                /\ workers' = Reap(workers, clients, call')
           ELSE /\ Goto(h, Msg("ReadFromSnapshot", RegistryAddr), "rs_ReloadData")
                /\ call' = [call EXCEPT ![h].data = r.data, ![h].client_id = r.id]
                /\ UNCHANGED workers
        /\ UNCHANGED <<network, net_actors, inbound, registry_up,
                       clients, current_target, snap_state, files>>

\* A ReloadData that carries an empty state instead of the one read.
reload_of_nothing(data) == EmptyData

\* ReloadData { data: result.data, id: result.id }
reload_of(data) == data

\* read_snapshot, last exchange: ReloadData to the resolved target.
rs_ReloadData(h) ==
    /\ pc[h] = "rs_ReloadData"
    /\ IF ~Delivered(call[h].target)
       THEN /\ Return(h, call[h].op, Err("ActorMailbox"))
            /\ workers' = Reap(workers, clients, call')
       ELSE /\ Return(h, call[h].op, Ok)
            /\ workers' = Reap([workers EXCEPT ![call[h].target] =
                                  ReloadData(@, reload_of(call[h].data), call[h].client_id)],
                               clients, call')
    /\ UNCHANGED <<network, net_actors, inbound, registry_up,
                   clients, current_target, snap_state, files>>

\* -------------------------------------------------------------- network
\* A NetworkActor lives while an Addr to it is held: by the Registry or by
\* a running call.
NetHeld(a, net, cs) == net = a \/ \E h \in Handles : cs[h].net = a

NetReap(acts, net, cs) ==
    [a \in NetAddrs |-> IF NetHeld(a, net, cs) THEN acts[a] ELSE NoActor]

HasFreeNetAddr == \E a \in NetAddrs : ~NetHeld(a, network, call)

FreeNetAddr ==
    CHOOSE a \in NetAddrs :
        /\ ~NetHeld(a, network, call)
        /\ \A b \in NetAddrs : ~NetHeld(b, network, call) => a <= b

\* The Registry's handlers for its network handle.
GetNetwork == network

InsertNetwork(addr) == network' = addr

StopNetwork == network' = NoAddr

\* NetworkActor::new(registry, firewall_rule, network_config): a started
\* actor whose default inbound rule is the firewall rule.
NewNetworkActor(firewall_rule) ==
    [alive |-> TRUE, default |-> Put(EmptyFn, "Inbound", firewall_rule), rules |-> EmptyFn]

\* The firewall of a NetworkActor on an inbound request of a peer: the rule
\* of the peer if there is one, else the default inbound rule if there is
\* one, else the request is rejected.
Decide(actor, peer, variant) ==
    IF <<peer, "Inbound">> \in DOMAIN actor.rules
    THEN variant \in actor.rules[<<peer, "Inbound">>]
    ELSE IF "Inbound" \in DOMAIN actor.default
    THEN variant \in actor.default["Inbound"]
    ELSE FALSE

\* The handlers of a NetworkActor for the firewall messages.
SetFirewallDefault(actor, direction, rule) ==
    [actor EXCEPT !.default = Put(@, direction, rule)]

SetFirewallRule(actor, peer, direction, rule) ==
    [actor EXCEPT !.rules = Put(@, <<peer, direction>>, rule)]

RemoveFirewallRule(actor, peer, direction) ==
    [actor EXCEPT !.rules = [x \in DOMAIN actor.rules \ {<<peer, direction>>}
                               |-> actor.rules[x]]]

\* What the calls on the network leave alone.
LocalUnchanged ==
    UNCHANGED <<registry_up, clients, current_target, workers, snap_state, files>>

\* spawn_p2p, first exchange: GetNetwork; with a network actor registered
\* the call returns Ok(false).
spawn_p2p(h, firewall_rule) ==
    /\ CanCall(h)
    /\ IF GetNetwork # NoAddr
       THEN Return(h, "spawn_p2p", OkVal(FALSE))
       ELSE Begin(h, [NoCall EXCEPT !.op = "spawn_p2p", !.rule = firewall_rule],
                  Msg("GetNetwork", RegistryAddr), "sp_InsertNetwork")
    /\ net_actors' = NetReap(net_actors, network, call')
    /\ UNCHANGED <<network, inbound>>
    /\ LocalUnchanged

\* spawn_p2p, after NetworkActor::new(..).await: an io::Error is returned as
\* Error::Inner; else the actor is started, InsertNetwork makes it the
\* network actor of the Registry, and the call returns Ok(true).
sp_InsertNetwork(h, started) ==
    /\ pc[h] = "sp_InsertNetwork"
    /\ HasFreeNetAddr
    /\ IF ~started
       THEN /\ Return(h, call[h].op, Err("Inner(io::Error)"))
            /\ net_actors' = NetReap(net_actors, network, call')
            /\ UNCHANGED network
       ELSE /\ Return(h, call[h].op, OkVal(TRUE))
            /\ InsertNetwork(FreeNetAddr)
            /\ net_actors' = NetReap([net_actors EXCEPT ![FreeNetAddr] =
                                        NewNetworkActor(call[h].rule)], network', call')
    /\ UNCHANGED inbound
    /\ LocalUnchanged

\* stop_p2p: StopNetwork stops the network actor; false without one.
stop_p2p(h) ==
    /\ CanCall(h)
    /\ Return(h, "stop_p2p", OkVal(network # NoAddr))
    /\ StopNetwork
    /\ net_actors' = NetReap([a \in NetAddrs |->
                                IF a = network THEN [net_actors[a] EXCEPT !.alive = FALSE]
                                ELSE net_actors[a]], network', call')
    /\ UNCHANGED inbound
    /\ LocalUnchanged

\* Stronghold::network_actor: the result of the GetNetwork exchange.
network_actor(reply) == ok_or_ActorNotSpawned(reply)

\* A send to a network actor fails with a MailboxError when it has stopped.
NetDelivered(addr) == net_actors[addr].alive

\* A facade that sets its rules for outbound requests.
Outbound == "Outbound"

\* direction: RuleDirection::Inbound, in every firewall message of the facade.
Inbound == "Inbound"

\* A set_firewall_rule that replaces the default rule in any case.
sets_default_always(set_default) == TRUE

\* set_firewall_rule: `if set_default`.
sets_default(set_default) == set_default

\* set_firewall_rule, first exchange: network_actor(); with no default to
\* set and no peers the call is done.
set_firewall_rule(h, rule, peers, set_default) ==
    /\ CanCall(h)
    /\ IF GetNetwork = NoAddr
       THEN Return(h, "set_firewall_rule", network_actor(GetNetwork))
       ELSE IF ~sets_default(set_default) /\ peers = <<>>
       THEN Return(h, "set_firewall_rule", Ok)
       ELSE Begin(h, [NoCall EXCEPT !.op = "set_firewall_rule", !.rule = rule,
                                    !.peers = peers, !.set_default = set_default,
                                    !.net = GetNetwork],
                  Msg("GetNetwork", RegistryAddr),
                  IF sets_default(set_default)
                  THEN "sfr_SetFirewallDefault" ELSE "sfr_SetFirewallRule")
    /\ net_actors' = NetReap(net_actors, network, call')
    /\ UNCHANGED <<network, inbound>>
    /\ LocalUnchanged

\* set_firewall_rule, the exchange taken with set_default: SetFirewallDefault.
sfr_SetFirewallDefault(h) ==
    /\ pc[h] = "sfr_SetFirewallDefault"
    /\ IF ~NetDelivered(call[h].net)
       THEN /\ Return(h, call[h].op, Err("ActorMailbox"))
            /\ net_actors' = NetReap(net_actors, network, call')
       ELSE /\ IF call[h].peers = <<>>
               THEN Return(h, call[h].op, Ok)
               ELSE Goto(h, Msg("SetFirewallDefault", call[h].net), "sfr_SetFirewallRule")
                    /\ UNCHANGED call
            /\ net_actors' = NetReap([net_actors EXCEPT ![call[h].net] =
                                        SetFirewallDefault(@, Inbound, call[h].rule)],
                                     network, call')
    /\ UNCHANGED <<network, inbound>>
    /\ LocalUnchanged

\* set_firewall_rule, one turn of `for peer in peers`: SetFirewallRule.
sfr_SetFirewallRule(h) ==
    /\ pc[h] = "sfr_SetFirewallRule"
    /\ IF ~NetDelivered(call[h].net)
       THEN /\ Return(h, call[h].op, Err("ActorMailbox"))
            /\ net_actors' = NetReap(net_actors, network, call')
       ELSE /\ IF Tail(call[h].peers) = <<>>
               THEN Return(h, call[h].op, Ok)
               ELSE Goto(h, Msg("SetFirewallRule", call[h].net), "sfr_SetFirewallRule")
                    /\ call' = [call EXCEPT ![h].peers = Tail(@)]
            /\ net_actors' = NetReap([net_actors EXCEPT ![call[h].net] =
                                        SetFirewallRule(@, Head(call[h].peers), Inbound,
                                                        call[h].rule)],
                                     network, call')
    /\ UNCHANGED <<network, inbound>>
    /\ LocalUnchanged

\* remove_firewall_rules, first exchange: network_actor().
remove_firewall_rules(h, peers) ==
    /\ CanCall(h)
    /\ IF GetNetwork = NoAddr
       THEN Return(h, "remove_firewall_rules", network_actor(GetNetwork))
       ELSE IF peers = <<>>
       THEN Return(h, "remove_firewall_rules", Ok)
       ELSE Begin(h, [NoCall EXCEPT !.op = "remove_firewall_rules", !.peers = peers,
                                    !.net = GetNetwork],
                  Msg("GetNetwork", RegistryAddr), "rfr_RemoveFirewallRule")
    /\ net_actors' = NetReap(net_actors, network, call')
    /\ UNCHANGED <<network, inbound>>
    /\ LocalUnchanged

\* remove_firewall_rules, one turn of `for peer in peers`: RemoveFirewallRule.
rfr_RemoveFirewallRule(h) ==
    /\ pc[h] = "rfr_RemoveFirewallRule"
    /\ IF ~NetDelivered(call[h].net)
       THEN /\ Return(h, call[h].op, Err("ActorMailbox"))
            /\ net_actors' = NetReap(net_actors, network, call')
       ELSE /\ IF Tail(call[h].peers) = <<>>
               THEN Return(h, call[h].op, Ok)
               ELSE Goto(h, Msg("RemoveFirewallRule", call[h].net), "rfr_RemoveFirewallRule")
                    /\ call' = [call EXCEPT ![h].peers = Tail(@)]
            /\ net_actors' = NetReap([net_actors EXCEPT ![call[h].net] =
                                        RemoveFirewallRule(@, Head(call[h].peers), Inbound)],
                                     network, call')
    /\ UNCHANGED <<network, inbound>>
    /\ LocalUnchanged

\* A request of a remote peer arrives at the network actor of the Registry:
\* the firewall decides, and a permitted request is forwarded to the target
\* as the local call would be; a forwarded WriteToStore writes the store.
inbound_request(peer, variant, k, v) ==
    /\ network # NoAddr
    /\ NetDelivered(network)
    /\ inbound' = [peer |-> peer, variant |-> variant,
                   forwarded |-> Decide(net_actors[network], peer, variant)]
    /\ IF /\ Decide(net_actors[network], peer, variant)
          /\ variant = "WriteToStore"
          /\ GetTarget # NoAddr
          /\ Delivered(GetTarget)
       THEN workers' = [workers EXCEPT ![GetTarget].data = WriteToStore(@, k, v)]
       ELSE UNCHANGED workers
    /\ UNCHANGED <<network, net_actors, registry_up, clients, current_target,
                   snap_state, files, pc, call, ret, sent>>

\* ------------------------------------------- facade: remote operations
\* OutboundFailure: the failures of a request sent to a remote peer.
OutboundFailures == {"Timeout", "ConnectionClosed"}

\* What becomes of a request sent to a peer: the remote Stronghold serves
\* it, the peer's inbound firewall rejects it, or it does not reach the peer.
Outcomes == {"served", "rejected", "unreachable"}

\* NetworkActor, SendRequest: the reply is Result<Rq::Result,
\* OutboundFailure>, the result of the remote Stronghold or the failure of
\* the request; a request that was not served has one of the failures.
SendRequest(outcome, served, f) ==
    IF outcome = "served" THEN OkVal(served)
    ELSE [tag |-> "Err", err |-> "OutboundFailure", val |-> f]

\* RemoteError::inner: Error::Inner(SendRequestError::Inner(e)).
RemoteError_inner(e) == [tag |-> "Err", err |-> "Inner(Inner)", val |-> e]

\* From<OutboundFailure> for RemoteError:
\* Error::Inner(SendRequestError::OutboundFailure(f)).
From_OutboundFailure(f) == [tag |-> "Err", err |-> "Inner(OutboundFailure)", val |-> f]

\* `.map_err(RemoteError::inner)` on the result of the remote Stronghold.
map_err_RemoteError_inner(r) == IF r.tag = "Err" THEN RemoteError_inner(r.err) ELSE r

\* The results a remote Stronghold gives: of WriteToRemoteVault, of
\* WriteToStore and ReadFromStore, of ListIds and of CallProcedure.
RemoteVaultResults == {Ok, Err("RemoteVaultError")}

RemoteStoreResults == StoreValues \cup {NoValue}

RemoteListResults == {OkVal({}), Err("VaultDoesNotExist")}

RemoteProcResults == {CallProcedure(EmptyData, c) : c \in Procedures}

\* The first exchange of a remote operation: network_actor().
RemoteFirst(h, c, next) ==
    /\ CanCall(h)
    /\ IF GetNetwork = NoAddr
       THEN Return(h, c.op, network_actor(GetNetwork))
       ELSE Begin(h, [c EXCEPT !.net = GetNetwork], Msg("GetNetwork", RegistryAddr), next)
    /\ net_actors' = NetReap(net_actors, network, call')
    /\ UNCHANGED <<network, inbound>>
    /\ LocalUnchanged

\* `actor.send(send_request).await??`: a MailboxError of the network actor
\* and an OutboundFailure of the request end the call, the failure
\* converted by From<OutboundFailure>; else the call goes on to its next
\* request, or returns the result when this was its last.
RemoteExchange(h, at, reply, next, result) ==
    /\ pc[h] = at
    /\ IF ~NetDelivered(call[h].net)
       THEN Return(h, call[h].op, Err("ActorMailbox"))
       ELSE IF reply.tag = "Err"
       THEN Return(h, call[h].op, From_OutboundFailure(reply.val))
       ELSE IF next = "idle"
       THEN Return(h, call[h].op, result)
       ELSE Goto(h, Msg("SendRequest", call[h].net), next) /\ UNCHANGED call
    /\ net_actors' = NetReap(net_actors, network, call')
    /\ UNCHANGED <<network, inbound>>
    /\ LocalUnchanged

\* write_remote_vault, first exchange: network_actor().
write_remote_vault(h, peer, location, payload) ==
    RemoteFirst(h, [NoCall EXCEPT !.op = "write_remote_vault", !.peer = peer,
                                  !.location = location, !.payload = payload],
                "wrv_CheckVault")

\* write_remote_vault: SendRequest of CheckVault; `if !vault_exists`.
wrv_CheckVault(h, outcome, vault_exists_, f) ==
    RemoteExchange(h, "wrv_CheckVault", SendRequest(outcome, vault_exists_, f),
                   IF vault_exists_ THEN "wrv_WriteToRemoteVault" ELSE "wrv_CreateVault",
                   Ok)

\* write_remote_vault: SendRequest of CreateVault.
wrv_CreateVault(h, outcome, f) ==
    RemoteExchange(h, "wrv_CreateVault", SendRequest(outcome, "created", f),
                   "wrv_WriteToRemoteVault", Ok)

\* write_remote_vault: SendRequest of WriteToRemoteVault.
wrv_WriteToRemoteVault(h, outcome, served, f) ==
    RemoteExchange(h, "wrv_WriteToRemoteVault", SendRequest(outcome, served, f),
                   "idle", map_err_RemoteError_inner(served))

\* write_to_remote_store, first exchange: network_actor().
write_to_remote_store(h, peer, k, v) ==
    RemoteFirst(h, [NoCall EXCEPT !.op = "write_to_remote_store", !.peer = peer,
                                  !.key_ = k, !.payload = v],
                "wtrs_SendRequest")

\* write_to_remote_store: SendRequest of WriteToStore; Ok(existing).
wtrs_SendRequest(h, outcome, served, f) ==
    RemoteExchange(h, "wtrs_SendRequest", SendRequest(outcome, served, f),
                   "idle", OkVal(served))

\* read_from_remote_store, first exchange: network_actor().
read_from_remote_store(h, peer, k) ==
    RemoteFirst(h, [NoCall EXCEPT !.op = "read_from_remote_store", !.peer = peer,
                                  !.key_ = k],
                "rfrs_SendRequest")

\* read_from_remote_store: SendRequest of ReadFromStore; Ok(data).
rfrs_SendRequest(h, outcome, served, f) ==
    RemoteExchange(h, "rfrs_SendRequest", SendRequest(outcome, served, f),
                   "idle", OkVal(served))

\* list_remote_hints_and_ids, first exchange: network_actor().
list_remote_hints_and_ids(h, peer, vault_path) ==
    RemoteFirst(h, [NoCall EXCEPT !.op = "list_remote_hints_and_ids", !.peer = peer,
                                  !.location = <<vault_path, NoRecord>>],
                "lrh_SendRequest")

\* list_remote_hints_and_ids: SendRequest of ListIds.
lrh_SendRequest(h, outcome, served, f) ==
    RemoteExchange(h, "lrh_SendRequest", SendRequest(outcome, served, f),
                   "idle", map_err_RemoteError_inner(served))

\* remote_runtime_exec, first exchange: network_actor().
remote_runtime_exec(h, peer, proc) ==
    RemoteFirst(h, [NoCall EXCEPT !.op = "remote_runtime_exec", !.peer = peer,
                                  !.proc = proc],
                "rre_SendRequest")

\* remote_runtime_exec: SendRequest of CallProcedure.
rre_SendRequest(h, outcome, served, f) ==
    RemoteExchange(h, "rre_SendRequest", SendRequest(outcome, served, f),
                   "idle", OkVal(unwrap_or_else_ProcResult_Error(served)))

\* A SecureClient actor stops; later sends to it fail with a MailboxError.
WorkerStops(a) ==
    /\ workers[a].alive
    /\ workers' = [workers EXCEPT ![a].alive = FALSE]
    /\ UNCHANGED <<network, net_actors, inbound, registry_up, clients,
                   current_target, snap_state, files, pc, call, ret, sent>>

Init ==
    /\ registry_up = FALSE
    /\ clients = [id \in Ids |-> NoAddr]
    /\ current_target = NoId
    /\ workers = [a \in Addrs |-> NoWorker]
    /\ snap_state = EmptyFn
    /\ files = EmptyFn
    /\ pc = [h \in Handles |-> "idle"]
    /\ call = [h \in Handles |-> NoCall]
    /\ ret = [h \in Handles |-> NoRet]
    /\ sent = [h \in Handles |-> {}]
    /\ network = NoAddr
    /\ net_actors = [a \in NetAddrs |-> NoActor]
    /\ inbound = NoInbound

\* The Registry and its target: spawn, switch and kill from every handle.
NextRegistry ==
    \/ \E h \in Handles, p \in Paths : init_stronghold_system(h, p)
    \/ \E h \in Handles, p \in Paths : spawn_stronghold_actor(h, p)
    \/ \E h \in Handles : spawn_SwitchTarget(h)
    \/ \E h \in Handles, p \in Paths : switch_actor_target(h, p)
    \/ \E h \in Handles, p \in Paths, k \in BOOLEAN : kill_stronghold(h, p, k)
    \/ \E h \in Handles : kill_ClearCache(h)

Spec == Init /\ [][NextRegistry]_vars

\* One Registry with its first client as the target, and every handle
\* writing records into the vault path of that target.
NextVault ==
    \/ \E h \in Handles, p \in Paths : ~registry_up /\ init_stronghold_system(h, p)
    \/ \E h \in Handles : spawn_SwitchTarget(h)
    \/ \E h \in Handles, l \in Locations, d \in Payloads : write_to_vault(h, l, d)
    \/ \E h \in Handles : wtv_CheckVault(h)
    \/ \E h \in Handles : wtv_CreateVault(h)
    \/ \E h \in Handles : wtv_WriteToVault(h)

SpecVault == Init /\ [][NextVault]_vars

\* The key data a caller passes: a key of the right size, one too short and
\* one too long; and another key of the right size.
WriteKeys == {KeyData(KeySize, 1), KeyData(KeySize - 1, 1), KeyData(KeySize + 1, 1)}

ReadKeys == WriteKeys \cup {KeyData(KeySize, 2)}

\* The record the snapshot specifications write, under each payload.
SnapshotLocation == CHOOSE l \in Locations : \A m \in Locations : l[2] <= m[2]

Caller == CHOOSE h \in Handles : TRUE

\* One caller issuing its calls one after the other on one Registry: it
\* spawns workers and writes snapshots of them, while workers may stop.
NextSnapshotWrite ==
    \/ \E p \in Paths : ~registry_up /\ init_stronghold_system(Caller, p)
    \/ \E p \in Paths : spawn_stronghold_actor(Caller, p)
    \/ spawn_SwitchTarget(Caller)
    \/ write_all_to_snapshot(Caller, KeyData(KeySize, 1), DefaultFile)
    \/ wats_GetData(Caller)
    \/ wats_FillSnapshot(Caller)
    \/ wats_WriteSnapshot(Caller)
    \/ \E a \in Addrs : WorkerStops(a)

SpecSnapshotWrite == Init /\ [][NextSnapshotWrite]_vars

\* One caller issuing its calls one after the other: it fills workers,
\* writes snapshots, starts fresh Registries and reads snapshots back.
NextSnapshot ==
    \/ \E p \in Paths : init_stronghold_system(Caller, p)
    \/ \E p \in Paths : spawn_stronghold_actor(Caller, p)
    \/ spawn_SwitchTarget(Caller)
    \/ \E d \in Payloads : write_to_vault(Caller, SnapshotLocation, d)
    \/ wtv_CheckVault(Caller)
    \/ wtv_CreateVault(Caller)
    \/ wtv_WriteToVault(Caller)
    \/ \E k \in WriteKeys : write_all_to_snapshot(Caller, k, DefaultFile)
    \/ wats_GetData(Caller)
    \/ wats_FillSnapshot(Caller)
    \/ wats_WriteSnapshot(Caller)
    \/ \E p \in Paths, f \in Paths \cup {NoPath}, k \in ReadKeys :
          read_snapshot(Caller, p, f, k, DefaultFile)
    \/ rs_ReadFromSnapshot(Caller)
    \/ rs_ReloadData(Caller)

SpecSnapshot == Init /\ [][NextSnapshot]_vars

\* One caller working on the vaults of the first client: it writes, revokes,
\* collects garbage, and asks what is there.
NextDelete ==
    \/ \E p \in Paths : ~registry_up /\ init_stronghold_system(Caller, p)
    \/ spawn_SwitchTarget(Caller)
    \/ \E l \in Locations, x \in Payloads : write_to_vault(Caller, l, x)
    \/ wtv_CheckVault(Caller)
    \/ wtv_CreateVault(Caller)
    \/ wtv_WriteToVault(Caller)
    \/ \E l \in Locations, gc \in BOOLEAN : delete_data(Caller, l, gc)
    \/ dd_RevokeData(Caller)
    \/ dd_GarbageCollect(Caller)
    \/ \E v \in VaultPaths : garbage_collect(Caller, v)
    \/ gc_GarbageCollect(Caller)
    \/ \E v \in VaultPaths : list_hints_and_ids(Caller, v)
    \/ lh_ListIds(Caller)
    \/ \E l \in Locations : record_exists(Caller, l)
    \/ re_CheckRecord(Caller)
    \/ \E v \in VaultPaths : vault_exists(Caller, v)
    \/ ve_CheckVault(Caller)

SpecDelete == Init /\ [][NextDelete]_vars

StoreKey == CHOOSE k \in StoreKeys : TRUE
StoreValue == CHOOSE v \in StoreValues : TRUE

\* One caller that spawns, switches and kills clients, and between these
\* issues every call that works on the current target; read_snapshot is
\* called with a former path while no snapshot file exists.
NextTarget ==
    \/ \E p \in Paths : ~registry_up /\ init_stronghold_system(Caller, p)
    \/ \E p \in Paths : spawn_stronghold_actor(Caller, p)
    \/ spawn_SwitchTarget(Caller)
    \/ \E p \in Paths : switch_actor_target(Caller, p)
    \/ \E p \in Paths : kill_stronghold(Caller, p, TRUE)
    \/ kill_ClearCache(Caller)
    \/ \E x \in Payloads : write_to_vault(Caller, SnapshotLocation, x)
    \/ wtv_CheckVault(Caller)
    \/ wtv_CreateVault(Caller)
    \/ wtv_WriteToVault(Caller)
    \/ write_to_store(Caller, StoreKey, StoreValue)
    \/ wts_WriteToStore(Caller)
    \/ read_from_store(Caller, StoreKey)
    \/ rfs_ReadFromStore(Caller)
    \/ delete_from_store(Caller, StoreKey)
    \/ dfs_DeleteFromStore(Caller)
    \/ \E gc \in BOOLEAN : delete_data(Caller, SnapshotLocation, gc)
    \/ dd_RevokeData(Caller)
    \/ dd_GarbageCollect(Caller)
    \/ \E v \in VaultPaths : garbage_collect(Caller, v)
    \/ gc_GarbageCollect(Caller)
    \/ \E v \in VaultPaths : list_hints_and_ids(Caller, v)
    \/ lh_ListIds(Caller)
    \/ \E c \in Procedures : runtime_exec(Caller, c)
    \/ rx_CallProcedure(Caller)
    \/ record_exists(Caller, SnapshotLocation)
    \/ re_CheckRecord(Caller)
    \/ \E v \in VaultPaths : vault_exists(Caller, v)
    \/ ve_CheckVault(Caller)
    \/ \E p \in Paths, f \in Paths :
          files = EmptyFn /\ read_snapshot(Caller, p, f, KeyData(KeySize, 1), DefaultFile)
    \/ files = EmptyFn /\ rs_ReadFromSnapshot(Caller)

SpecTarget == Init /\ [][NextTarget]_vars

\* The clones of one handle spawn the network, their calls interleaving.
NextNetSpawn ==
    \/ \E p \in Paths : ~registry_up /\ init_stronghold_system(Caller, p)
    \/ spawn_SwitchTarget(Caller)
    \/ \E h \in Handles, r \in Rules : spawn_p2p(h, r)
    \/ \E h \in Handles, started \in BOOLEAN : sp_InsertNetwork(h, started)

SpecNetSpawn == Init /\ [][NextNetSpawn]_vars

\* The lists of peers a call is given: every peer at most once, in
\* ascending order.
PeerLists ==
    {l \in UNION {[1..n -> Peers] : n \in 0..NumPeers} :
        \A i, j \in DOMAIN l : i < j => l[i] < l[j]}

\* One caller that spawns clients, switches between them and writes,
\* reads and deletes entries of the store of the target.
NextStore ==
    \/ \E p \in Paths : ~registry_up /\ init_stronghold_system(Caller, p)
    \/ \E p \in Paths : spawn_stronghold_actor(Caller, p)
    \/ spawn_SwitchTarget(Caller)
    \/ \E p \in Paths : switch_actor_target(Caller, p)
    \/ \E k \in StoreKeys, v \in StoreValues : write_to_store(Caller, k, v)
    \/ wts_WriteToStore(Caller)
    \/ \E k \in StoreKeys : read_from_store(Caller, k)
    \/ rfs_ReadFromStore(Caller)
    \/ \E k \in StoreKeys : delete_from_store(Caller, k)
    \/ dfs_DeleteFromStore(Caller)

SpecStore == Init /\ [][NextStore]_vars

\* One caller that spawns and stops the network and sets and removes
\* firewall rules, while peers send requests that read or write the store.
NextFirewall ==
    \/ \E p \in Paths : ~registry_up /\ init_stronghold_system(Caller, p)
    \/ spawn_SwitchTarget(Caller)
    \/ \E r \in Rules : spawn_p2p(Caller, r)
    \/ \E started \in BOOLEAN : sp_InsertNetwork(Caller, started)
    \/ stop_p2p(Caller)
    \/ \E r \in Rules, l \in PeerLists, d \in BOOLEAN : set_firewall_rule(Caller, r, l, d)
    \/ sfr_SetFirewallDefault(Caller)
    \/ sfr_SetFirewallRule(Caller)
    \/ \E l \in PeerLists : remove_firewall_rules(Caller, l)
    \/ rfr_RemoveFirewallRule(Caller)
    \/ \E peer \in Peers, variant \in {"ReadFromStore", "WriteToStore"} :
          inbound_request(peer, variant, StoreKey, StoreValue)

SpecFirewall == Init /\ [][NextFirewall]_vars

\* ------------------------------------------------------------- claims

\* C1: switch_actor_target(path) for an identity with no worker in the
\* Registry (never spawned, or removed) returns Error::ActorNotSpawned, adds
\* no worker, and leaves the directory and the current target as they were.
C1_SwitchUnspawned ==
    [][\A h \in Handles, p \in Paths :
        (switch_actor_target(h, p) /\ clients[load_from_path(p, p)] = NoAddr)
        => /\ ret'[h] = [op |-> "switch_actor_target", res |-> Err("ActorNotSpawned")]
           /\ clients' = clients
           /\ workers' = workers
           /\ current_target' = current_target]_vars

\* C1 witness: a switch has failed with ActorNotSpawned while another
\* identity is the current target.
C1_Witness ==
    \E h \in Handles :
        /\ Returned(h, "switch_actor_target", Err("ActorNotSpawned"))
        /\ current_target # NoId
        /\ \E id \in Ids : clients[id] = NoAddr

\* C2: concurrent write_to_vault calls on the same worker and the same, not
\* yet existing, vault path: every call returns Ok with its record in the
\* vault under its payload, and no exchange of any call (a later CreateVault
\* in particular) takes a record or the vault away again.
WtvPcs == {"wtv_CheckVault", "wtv_CreateVault", "wtv_WriteToVault"}

C2_ConcurrentWriters ==
    [][/\ \A h \in Handles :
            (pc[h] \in WtvPcs /\ pc'[h] = "idle")
            => /\ ret'[h] = [op |-> "write_to_vault", res |-> Ok]
               /\ call[h].location[1] \in workers'[call[h].target].data.keystore
               /\ call[h].location \in DOMAIN workers'[call[h].target].data.db
               /\ workers'[call[h].target].data.db[call[h].location] = call[h].payload
       /\ \A a \in Addrs :
            /\ workers[a].data.keystore \subseteq workers'[a].data.keystore
            /\ DOMAIN workers[a].data.db \subseteq DOMAIN workers'[a].data.db]_vars

\* C2 witness: one writer has returned Ok and its record is in the vault,
\* while another writer, whose check found no vault, is about to send its
\* CreateVault to the same worker.
C2_Witness ==
    \E h, g \in Handles :
        /\ Returned(h, "write_to_vault", Ok)
        /\ pc[g] = "wtv_CreateVault"
        /\ DOMAIN workers[call[g].target].data.db # {}

\* C3: every facade operation ends by returning Ok or Err; no call ends in
\* a fault of the calling task.
C3_NoFault == \A h \in Handles : ret[h].res.tag \in {"None", "Ok", "Err"}

\* The messages of a kind among those a call has sent.
SentKind(h, kind) == {m \in sent[h] : m.msg = kind}

\* C4: a successful write_all_to_snapshot persists one entry for every
\* identity the Registry had registered when the call got the worker list,
\* whichever identity is the target: the entry is the state the worker
\* returned to GetData, which, with no other call running, is the state the
\* worker has.
C4_SnapshotAllWorkers ==
    [][\A h \in Handles :
        (pc[h] = "wats_WriteSnapshot" /\ pc'[h] = "idle" /\ ret'[h].res = Ok)
        => /\ call[h].file \in DOMAIN files'
           /\ call[h].listed = Registered
           /\ \A id \in call[h].listed :
                /\ id \in DOMAIN files'[call[h].file].state
                /\ id \in DOMAIN call[h].filled
                /\ files'[call[h].file].state[id] = call[h].filled[id]
                /\ files'[call[h].file].state[id] = workers[clients[id]].data]_vars

\* C4 witness: a snapshot has just been written that holds two workers
\* with different states.
C4_Witness ==
    \E h \in Handles :
        /\ Returned(h, "write_all_to_snapshot", Ok)
        /\ DefaultFile \in DOMAIN files
        /\ \E id1, id2 \in DOMAIN files[DefaultFile].state :
              files[DefaultFile].state[id1] # files[DefaultFile].state[id2]

\* C5: when a worker of the gathered list does not answer GetData, the
\* call returns the mailbox error at once, has sent no WriteSnapshot, and
\* the snapshot file is as it was; the file changes only in the
\* WriteSnapshot exchange of a call whose workers have all answered.
C5_AbortNoPersist ==
    [][/\ \A h \in Handles :
            (pc[h] = "wats_GetData" /\ pc'[h] # pc[h] /\ ~Delivered(call[h].clients[1][2]))
            => /\ ret'[h] = [op |-> "write_all_to_snapshot", res |-> Err("ActorMailbox")]
               /\ SentKind(h, "WriteSnapshot") = {}
               /\ files' = files
       /\ files' # files
            => \E h \in Handles :
                 /\ pc[h] = "wats_WriteSnapshot"
                 /\ DOMAIN call[h].filled = call[h].listed]_vars

\* C5 witness: a write has been aborted by a mailbox error after an
\* entry had already been filled in, and the file of an earlier write is
\* on disk.
C5_Witness ==
    \E h \in Handles :
        /\ Returned(h, "write_all_to_snapshot", Err("ActorMailbox"))
        /\ snap_state # EmptyFn
        /\ DefaultFile \in DOMAIN files

\* C6: read_snapshot and write_all_to_snapshot called with key data that
\* is not KeySize bytes long return an error value, and neither read nor
\* write a snapshot.
C6_KeyLengthError ==
    [][\A h \in Handles, k \in ReadKeys :
        (/\ k.len # KeySize
         /\ \/ write_all_to_snapshot(h, k, DefaultFile)
            \/ \E p \in Paths, f \in Paths \cup {NoPath} : read_snapshot(h, p, f, k, DefaultFile))
        => /\ ret'[h].res.tag = "Err"
           /\ files' = files
           /\ workers' = workers]_vars

\* C7: read_snapshot with a key of the right size that is not the key the
\* file was written with returns Error::Inner(decryption error); the call
\* has sent no ReloadData, and no step of a read_snapshot before its
\* ReloadData exchange changes a worker.
C7_WrongKey ==
    [][\A h \in Handles :
        /\ (/\ pc[h] = "rs_ReadFromSnapshot" /\ pc'[h] # pc[h]
            /\ call[h].file \in DOMAIN files
            /\ files[call[h].file].key # call[h].key)
           => /\ ret'[h] = [op |-> "read_snapshot", res |-> Err("Inner(DecryptionError)")]
              /\ SentKind(h, "ReloadData") = {}
              /\ files' = files
        /\ (/\ pc[h] # "rs_ReloadData"
            /\ call'[h].op = "read_snapshot" \/ ret'[h].op = "read_snapshot")
           => workers' = workers]_vars

\* C7 witness: a read has failed with the decryption error while a worker
\* holds a record.
C7_Witness ==
    \E h \in Handles :
        /\ Returned(h, "read_snapshot", Err("Inner(DecryptionError)"))
        /\ \E a \in Addrs : workers[a].data # EmptyData

\* C8, as claimed: a successful read_snapshot(A_path, None, key) makes the
\* state of A's worker the state the snapshot holds for A, and leaves every
\* other worker as it was.
C8_RoundTripAnyTarget ==
    [][\A h \in Handles :
        (/\ pc[h] = "rs_ReloadData" /\ pc'[h] = "idle" /\ ret'[h].res = Ok
         /\ call[h].former_id = NoId
         /\ clients[call[h].client_id] # NoAddr)
        => /\ workers'[clients[call[h].client_id]].data =
                files[call[h].file].state[call[h].client_id]
           /\ \A a \in Addrs \ {clients[call[h].client_id]} : workers'[a] = workers[a]]_vars

\* C8, amended: the same when A is the current target of the Registry.
C8_RoundTrip ==
    [][\A h \in Handles :
        (/\ pc[h] = "rs_ReloadData" /\ pc'[h] = "idle" /\ ret'[h].res = Ok
         /\ call[h].former_id = NoId
         /\ clients[call[h].client_id] # NoAddr
         /\ current_target = call[h].client_id)
        => /\ workers'[clients[call[h].client_id]].data =
                files[call[h].file].state[call[h].client_id]
           /\ \A a \in Addrs \ {clients[call[h].client_id]} : workers'[a] = workers[a]]_vars

\* C8 witness: after a successful read the target's worker holds the
\* record the snapshot has for it, and another worker of the Registry
\* still differs from what the snapshot has for that one.
C8_Witness ==
    \E h \in Handles :
        /\ Returned(h, "read_snapshot", Ok)
        /\ DefaultFile \in DOMAIN files
        /\ current_target \in DOMAIN files[DefaultFile].state
        /\ workers[clients[current_target]].data = files[DefaultFile].state[current_target]
        /\ workers[clients[current_target]].data # EmptyData
        /\ \E id \in DOMAIN files[DefaultFile].state :
              /\ id # current_target
              /\ clients[id] # NoAddr
              /\ workers[clients[id]].data # files[DefaultFile].state[id]

\* C9: read_snapshot(client_path, Some(former_path), ..) first switches
\* the target to identity(former_path); when that identity has no worker
\* it returns ActorNotSpawned in that first exchange, with no snapshot read
\* and no worker changed; otherwise, on success, the snapshot's state for
\* identity(client_path) is in the worker of identity(former_path), and the
\* directory is as it was.
C9_FormerIdentity ==
    [][\A h \in Handles :
        /\ \A p \in Paths, f \in Paths, k \in ReadKeys :
             read_snapshot(h, p, f, k, DefaultFile)
             => IF clients[load_from_path(f, f)] = NoAddr
                THEN /\ ret'[h] = [op |-> "read_snapshot", res |-> Err("ActorNotSpawned")]
                     /\ workers' = workers
                     /\ files' = files
                ELSE /\ current_target' = load_from_path(f, f)
                     /\ k.len = KeySize => /\ pc'[h] = "rs_ReadFromSnapshot"
                                           /\ call'[h].target = clients[load_from_path(f, f)]
        /\ (/\ pc[h] = "rs_ReloadData" /\ pc'[h] = "idle" /\ ret'[h].res = Ok
            /\ call[h].former_id # NoId)
           => /\ call[h].target = clients[call[h].former_id]
              /\ workers'[call[h].target].data = files[call[h].file].state[call[h].client_id]
              /\ \A a \in Addrs \ {call[h].target} : workers'[a] = workers[a]
              /\ clients' = clients]_vars

\* C9 witness: a read with a former path has switched the target to the
\* former identity and read the state of an identity that has no worker;
\* it is about to reload the former identity's worker.
C9_Witness ==
    \E h \in Handles :
        /\ pc[h] = "rs_ReloadData"
        /\ call[h].former_id # NoId
        /\ current_target = call[h].former_id
        /\ clients[call[h].client_id] = NoAddr
        /\ call[h].data # workers[call[h].target].data

\* C10, as claimed: after a successful read_snapshot(client_path, None, key)
\* for an identity that had no worker, the Registry holds a worker for that
\* identity, and it carries the loaded state.
C10_ImplicitSpawn ==
    [][\A h \in Handles :
        (/\ pc[h] = "rs_ReloadData" /\ pc'[h] = "idle" /\ ret'[h].res = Ok
         /\ call[h].former_id = NoId
         /\ clients[call[h].client_id] = NoAddr)
        => /\ clients'[call[h].client_id] # NoAddr
           /\ workers'[clients'[call[h].client_id]].data =
                files[call[h].file].state[call[h].client_id]]_vars

\* C10, amended: such a read creates no worker: the directory is as it
\* was, the identity still has no worker, and the loaded state is in the
\* worker of the current target.
C10_LoadsIntoTarget ==
    [][\A h \in Handles :
        (/\ pc[h] = "rs_ReloadData" /\ pc'[h] = "idle" /\ ret'[h].res = Ok
         /\ call[h].former_id = NoId
         /\ clients[call[h].client_id] = NoAddr)
        => /\ clients' = clients
           /\ current_target # NoId
           /\ call[h].target = clients[current_target]
           /\ workers'[clients[current_target]].data =
                files[call[h].file].state[call[h].client_id]
           /\ \A a \in Addrs \ {call[h].target} : workers'[a] = workers[a]]_vars

\* C10 witness: a read without a former path, for an identity that has no
\* worker, has read that identity's state and is about to reload the
\* worker of the current target, which holds something else.
C10_Witness ==
    \E h \in Handles :
        /\ pc[h] = "rs_ReloadData"
        /\ call[h].former_id = NoId
        /\ clients[call[h].client_id] = NoAddr
        /\ call[h].target = clients[current_target]
        /\ call[h].data # workers[call[h].target].data

\* The state of the worker a call has resolved, before and after a step.
TargetData(h) == workers[call[h].target].data
TargetDataNext(h) == workers'[call[h].target].data

\* C11: when delete_data(loc, true) returns Ok the record at loc is not
\* live in the target and every other record that was live still is, the
\* revoke and the garbage collection each keeping the other live records;
\* record_exists(loc) returns whether the record is live in the target, and
\* list_hints_and_ids returns the live records of the vault: so after the
\* delete record_exists(loc) is false and the list has the others only.
C11_DeleteThenAbsent ==
    [][\A h \in Handles :
        /\ (pc[h] = "dd_RevokeData" /\ pc'[h] # pc[h] /\ Delivered(call[h].target)
            /\ call[h].location[1] \in TargetData(h).keystore)
           => Live(TargetDataNext(h), call[h].location[1])
                = Live(TargetData(h), call[h].location[1]) \ {call[h].location}
        /\ (pc[h] = "dd_GarbageCollect" /\ pc'[h] = "idle" /\ ret'[h].res = Ok)
           => /\ ~CheckRecord(TargetDataNext(h), call[h].location)
              /\ Live(TargetDataNext(h), call[h].location[1])
                   = Live(TargetData(h), call[h].location[1])
              /\ \A l \in Live(TargetData(h), call[h].location[1]) :
                    TargetDataNext(h).db[l] = TargetData(h).db[l]
        /\ (pc[h] = "re_CheckRecord" /\ pc'[h] = "idle" /\ Delivered(call[h].target))
           => ret'[h].res = OkVal(call[h].location \in
                                    Live(TargetData(h), call[h].location[1]))
        /\ (pc[h] = "lh_ListIds" /\ pc'[h] = "idle" /\ ret'[h].res.tag = "Ok")
           => ret'[h].res.val = Live(TargetData(h), call[h].location[1])]_vars

\* C11 witness: a delete_data has returned Ok, nothing revoked is left in
\* the target, one of the records is gone and another is live.
C11_Witness ==
    \E h \in Handles :
        /\ Returned(h, "delete_data", Ok)
        /\ current_target # NoId
        /\ workers[clients[current_target]].data.revoked = {}
        /\ \E l1, l2 \in Locations :
              /\ l1[1] = l2[1]
              /\ l1 \in Live(workers[clients[current_target]].data, l1[1])
              /\ l2 \notin DOMAIN workers[clients[current_target]].data.db

\* C12: a delete_data without should_gc ends in its RevokeData exchange,
\* having sent no GarbageCollect: when it returns Ok the record is not live
\* and the stored records are the same as before.  Stored records leave a
\* worker only in a GarbageCollect exchange with that worker, and a
\* successful garbage_collect leaves exactly the live records of the vault.
C12_TwoPhaseDelete ==
    [][/\ \A h \in Handles :
            /\ (pc[h] = "dd_RevokeData" /\ pc'[h] # pc[h] /\ ~call[h].should_gc)
               => /\ pc'[h] = "idle"
                  /\ SentKind(h, "GarbageCollect") = {}
                  /\ ret'[h].res = Ok
                       => /\ ~CheckRecord(TargetDataNext(h), call[h].location)
                          /\ DOMAIN TargetDataNext(h).db = DOMAIN TargetData(h).db
                          /\ TargetDataNext(h).db = TargetData(h).db
            /\ (pc[h] = "gc_GarbageCollect" /\ pc'[h] = "idle" /\ ret'[h].res = Ok)
               => /\ Stored(TargetDataNext(h), call[h].location[1])
                       = Live(TargetData(h), call[h].location[1])
                  /\ TargetDataNext(h).revoked \cap Stored(TargetData(h), call[h].location[1]) = {}
       /\ \A a \in Addrs :
            ~(DOMAIN workers[a].data.db \subseteq DOMAIN workers'[a].data.db)
            => \E h \in Handles :
                 /\ pc[h] \in {"dd_GarbageCollect", "gc_GarbageCollect"}
                 /\ call[h].target = a
                 /\ pc[h] = "dd_GarbageCollect" => call[h].should_gc]_vars

\* C12 witness: a delete_data has returned Ok and the record it revoked is
\* still stored in the target.
C12_Witness ==
    \E h \in Handles :
        /\ Returned(h, "delete_data", Ok)
        /\ current_target # NoId
        /\ workers[clients[current_target]].data.revoked # {}
        /\ workers[clients[current_target]].data.revoked
             \subseteq DOMAIN workers[clients[current_target]].data.db

TargetOps ==
    {"write_to_vault", "write_to_store", "read_from_store", "delete_from_store",
     "delete_data", "garbage_collect", "list_hints_and_ids", "runtime_exec",
     "record_exists", "vault_exists"}

\* A handle has just made the first exchange of such a call: the call is
\* under way, or it has returned at once.
TargetCall(h) ==
    /\ Idle(h)
    /\ \/ call'[h].op \in TargetOps
       \/ ret'[h].op \in TargetOps /\ ret'[h] # ret[h]

\* Removing the worker of the current target leaves the Registry without
\* target, and without target a call that works on the target returns
\* ActorNotSpawned in its first exchange, having reached no worker.
NoTargetNoWork ==
    \A h \in Handles :
        /\ \A p \in Paths :
             (/\ kill_stronghold(h, p, TRUE)
              /\ current_target = load_from_path(p, p)
              /\ clients[load_from_path(p, p)] # NoAddr)
             => /\ current_target' = NoId
                /\ clients'[load_from_path(p, p)] = NoAddr
        /\ (TargetCall(h) /\ current_target = NoId)
           => /\ ret'[h].op \in TargetOps
              /\ ret'[h].res = Err("ActorNotSpawned")
              /\ pc'[h] = "idle"
              /\ sent'[h] = {}
              /\ workers' = workers

NextRemote ==
    \/ \E p \in Paths : ~registry_up /\ init_stronghold_system(Caller, p)
    \/ spawn_SwitchTarget(Caller)
    \/ \E r \in Rules : spawn_p2p(Caller, r)
    \/ \E started \in BOOLEAN : sp_InsertNetwork(Caller, started)
    \/ stop_p2p(Caller)
    \/ \E peer \in Peers, x \in Payloads :
          write_remote_vault(Caller, peer, SnapshotLocation, x)
    \/ \E o \in Outcomes, e \in BOOLEAN, f \in OutboundFailures :
          wrv_CheckVault(Caller, o, e, f)
    \/ \E o \in Outcomes, f \in OutboundFailures : wrv_CreateVault(Caller, o, f)
    \/ \E o \in Outcomes, s \in RemoteVaultResults, f \in OutboundFailures :
          wrv_WriteToRemoteVault(Caller, o, s, f)
    \/ \E peer \in Peers, k \in StoreKeys, v \in StoreValues :
          write_to_remote_store(Caller, peer, k, v)
    \/ \E o \in Outcomes, s \in RemoteStoreResults, f \in OutboundFailures :
          wtrs_SendRequest(Caller, o, s, f)
    \/ \E peer \in Peers, k \in StoreKeys : read_from_remote_store(Caller, peer, k)
    \/ \E o \in Outcomes, s \in RemoteStoreResults, f \in OutboundFailures :
          rfrs_SendRequest(Caller, o, s, f)
    \/ \E peer \in Peers, v \in VaultPaths : list_remote_hints_and_ids(Caller, peer, v)
    \/ \E o \in Outcomes, s \in RemoteListResults, f \in OutboundFailures :
          lrh_SendRequest(Caller, o, s, f)
    \/ \E peer \in Peers, c \in Procedures : remote_runtime_exec(Caller, peer, c)
    \/ \E o \in Outcomes, s \in RemoteProcResults, f \in OutboundFailures :
          rre_SendRequest(Caller, o, s, f)

SpecRemote == Init /\ [][NextRemote]_vars

\* One caller that spawns clients and writes and deletes a record, while
\* the other handles switch the target between its calls' exchanges.
NextRetarget ==
    \/ \E p \in Paths : ~registry_up /\ init_stronghold_system(Caller, p)
    \/ \E p \in Paths : spawn_stronghold_actor(Caller, p)
    \/ spawn_SwitchTarget(Caller)
    \/ \E h \in Handles \ {Caller}, p \in Paths : switch_actor_target(h, p)
    \/ \E x \in Payloads : write_to_vault(Caller, SnapshotLocation, x)
    \/ wtv_CheckVault(Caller)
    \/ wtv_CreateVault(Caller)
    \/ wtv_WriteToVault(Caller)
    \/ \E gc \in BOOLEAN : delete_data(Caller, SnapshotLocation, gc)
    \/ dd_RevokeData(Caller)
    \/ dd_GarbageCollect(Caller)

SpecRetarget == Init /\ [][NextRetarget]_vars

\* The handles write snapshots at the same time, each call's exchanges
\* coming between the other's, while clients are spawned and killed.
NextSnapshotRace ==
    \/ \E p \in Paths : ~registry_up /\ init_stronghold_system(Caller, p)
    \/ \E p \in Paths : spawn_stronghold_actor(Caller, p)
    \/ spawn_SwitchTarget(Caller)
    \/ \E p \in Paths : kill_stronghold(Caller, p, TRUE)
    \/ kill_ClearCache(Caller)
    \/ \E h \in Handles : write_all_to_snapshot(h, KeyData(KeySize, 1), DefaultFile)
    \/ \E h \in Handles : wats_GetData(h)
    \/ \E h \in Handles : wats_FillSnapshot(h)
    \/ \E h \in Handles : wats_WriteSnapshot(h)

SpecSnapshotRace == Init /\ [][NextSnapshotRace]_vars

\* A clone of the caller's handle.
Clone == CHOOSE h \in Handles : h # Caller

\* The caller and a clone of its handle spawn, switch and kill at the same
\* time, each call's exchanges coming between the other's, while the
\* caller also writes a snapshot and reads it, with and without a former
\* path.
NextRegistryRead ==
    \/ \E p \in Paths : ~registry_up /\ init_stronghold_system(Caller, p)
    \/ \E h \in {Caller, Clone}, p \in Paths : spawn_stronghold_actor(h, p)
    \/ \E h \in {Caller, Clone} : spawn_SwitchTarget(h)
    \/ \E h \in {Caller, Clone}, p \in Paths : switch_actor_target(h, p)
    \/ \E h \in {Caller, Clone}, p \in Paths : kill_stronghold(h, p, TRUE)
    \/ \E h \in {Caller, Clone} : kill_ClearCache(h)
    \/ \E p \in Paths, f \in Paths \cup {NoPath} :
          read_snapshot(Caller, p, f, KeyData(KeySize, 1), DefaultFile)
    \/ rs_ReadFromSnapshot(Caller)
    \/ rs_ReloadData(Caller)
    \/ files = EmptyFn /\ write_all_to_snapshot(Caller, KeyData(KeySize, 1), DefaultFile)
    \/ wats_GetData(Caller)
    \/ wats_FillSnapshot(Caller)
    \/ wats_WriteSnapshot(Caller)

SpecRegistryRead == Init /\ [][NextRegistryRead]_vars

\* A handle's call has made an exchange in this step.
Stepped(h) == pc'[h] # pc[h] \/ call'[h] # call[h]

C16_RemoveOnlyListed ==
    [][\A h \in Handles :
        /\ (pc[h] = "rfr_RemoveFirewallRule" /\ Stepped(h) /\ NetDelivered(call[h].net))
           => /\ net_actors'[call[h].net].default = net_actors[call[h].net].default
              /\ DOMAIN net_actors'[call[h].net].rules
                   = DOMAIN net_actors[call[h].net].rules \ {<<Head(call[h].peers), "Inbound">>}
              /\ \A x \in DOMAIN net_actors'[call[h].net].rules :
                    net_actors'[call[h].net].rules[x] = net_actors[call[h].net].rules[x]
              /\ \A b \in NetAddrs \ {call[h].net} : net_actors'[b] = net_actors[b]
              /\ IF Tail(call[h].peers) = <<>>
                 THEN ret'[h] = [op |-> "remove_firewall_rules", res |-> Ok]
                 ELSE pc'[h] = pc[h] /\ call'[h].peers = Tail(call[h].peers)
        /\ (pc[h] = "idle" /\ call'[h].op \in {"remove_firewall_rules", "set_firewall_rule"})
           => net_actors' = net_actors
        /\ (call[h].op = "remove_firewall_rules" /\ Stepped(h))
           => \A b \in NetAddrs : net_actors'[b].default = net_actors[b].default
        /\ (call[h].op = "set_firewall_rule" /\ ~call[h].set_default /\ Stepped(h))
           => \A b \in NetAddrs : net_actors'[b].default = net_actors[b].default]_vars

\* C16 witness: a remove_firewall_rules has returned Ok; the actor has its
\* default rule and the rule of a peer, and another peer has no rule.
C16_Witness ==
    \E h \in Handles :
        /\ Returned(h, "remove_firewall_rules", Ok)
        /\ network # NoAddr
        /\ "Inbound" \in DOMAIN net_actors[network].default
        /\ \E p1, p2 \in Peers :
              /\ <<p1, "Inbound">> \in DOMAIN net_actors[network].rules
              /\ <<p2, "Inbound">> \notin DOMAIN net_actors[network].rules
              /\ net_actors[network].rules[<<p1, "Inbound">>]
                   # net_actors[network].default["Inbound"]

\* The entries of the store of the worker at an address.
StoreOf(w, a) == w[a].data.store

\* C19: stores are per worker.  A store call resolves the worker that is
\* the target; its WriteToStore or DeleteFromStore exchange changes the
\* store of that worker under that key only and leaves the store of every
\* other worker as it was, so what a read returns with another worker as
\* target is unchanged; a read returns the entry of the worker it resolved
\* and changes nothing; write_to_store returns None when the key was
\* absent in the target's store, and the previous value when present.
C19_StorePerWorker ==
    [][\A h \in Handles :
        /\ (pc[h] = "idle" /\ call'[h].op \in {"write_to_store", "read_from_store",
                                               "delete_from_store"})
           => call'[h].target = GetTarget /\ workers' = workers
        /\ (pc[h] \in {"wts_WriteToStore", "dfs_DeleteFromStore"} /\ Stepped(h))
           => /\ \A a \in DOMAIN workers \ {call[h].target} :
                    StoreOf(workers', a) = StoreOf(workers, a)
              /\ \A k \in DOMAIN StoreOf(workers, call[h].target) \ {call[h].key_} :
                    /\ k \in DOMAIN StoreOf(workers', call[h].target)
                    /\ StoreOf(workers', call[h].target)[k] = StoreOf(workers, call[h].target)[k]
        /\ (pc[h] = "wts_WriteToStore" /\ Stepped(h) /\ Delivered(call[h].target))
           => /\ ret'[h].op = "write_to_store"
              /\ ret'[h].res =
                   (IF call[h].key_ \in DOMAIN StoreOf(workers, call[h].target)
                    THEN OkVal(StoreOf(workers, call[h].target)[call[h].key_])
                    ELSE OkVal(NoValue))
              /\ call[h].key_ \in DOMAIN StoreOf(workers', call[h].target)
              /\ StoreOf(workers', call[h].target)[call[h].key_] = call[h].payload
        /\ (pc[h] = "dfs_DeleteFromStore" /\ Stepped(h) /\ Delivered(call[h].target))
           => /\ ret'[h] = [op |-> "delete_from_store", res |-> Ok]
              /\ call[h].key_ \notin DOMAIN StoreOf(workers', call[h].target)
        /\ (pc[h] = "rfs_ReadFromStore" /\ Stepped(h) /\ Delivered(call[h].target))
           => /\ ret'[h].op = "read_from_store"
              /\ ret'[h].res =
                   (IF call[h].key_ \in DOMAIN StoreOf(workers, call[h].target)
                    THEN OkVal(StoreOf(workers, call[h].target)[call[h].key_])
                    ELSE OkVal(NoValue))
              /\ workers' = workers]_vars

\* C19 witness: a write_to_store has returned the previous value of its
\* key, and two workers hold different values under one key.
C19_Witness ==
    \E h \in Handles :
        /\ ret[h].op = "write_to_store"
        /\ ret[h].res \in {OkVal(v) : v \in StoreValues}
        /\ \E a, b \in DOMAIN workers, k \in StoreKeys :
              /\ a # b
              /\ Delivered(a) /\ Delivered(b)
              /\ k \in DOMAIN StoreOf(workers, a)
              /\ k \in DOMAIN StoreOf(workers, b)
              /\ StoreOf(workers, a)[k] # StoreOf(workers, b)[k]
              /\ GetTarget = b

\* C20: when a read_snapshot or write_all_to_snapshot that has copied the
\* key data into its key buffer returns, with Ok or with an error, the
\* caller's key data is all zeros.
C20_KeydataScrubbed ==
    [][\A h \in Handles :
        (/\ call[h].op \in {"read_snapshot", "write_all_to_snapshot"}
         /\ pc[h] # "idle"
         /\ pc'[h] = "idle")
        => call[h].keydata.byte = 0]_vars

\* C17: a request of a remote operation that the peer's inbound firewall
\* rejected is returned to the caller as an error, and not as the error
\* of an outbound failure, Error::Inner(SendRequestError::OutboundFailure).
C17_RejectionDistinct ==
    [][\A h \in Handles, f \in OutboundFailures :
        (\/ wrv_CheckVault(h, "rejected", TRUE, f)
         \/ wrv_CreateVault(h, "rejected", f)
         \/ wrv_WriteToRemoteVault(h, "rejected", Ok, f)
         \/ wtrs_SendRequest(h, "rejected", NoValue, f)
         \/ rfrs_SendRequest(h, "rejected", NoValue, f)
         \/ lrh_SendRequest(h, "rejected", OkVal({}), f)
         \/ rre_SendRequest(h, "rejected", OkVal("ProcResult"), f))
        => /\ ret'[h].res.tag = "Err"
           /\ ret'[h].res.err # From_OutboundFailure(f).err]_vars

\* The exchanges of write_to_vault and delete_data that follow target().
VaultExchanges ==
    {"wtv_CheckVault", "wtv_CreateVault", "wtv_WriteToVault",
     "dd_RevokeData", "dd_GarbageCollect"}

\* C21: write_to_vault and delete_data resolve the target once: whatever
\* switch_actor_target calls of other handles come between the exchanges of
\* a call, the call keeps the worker it resolved, each of its messages
\* goes to that worker, and each of its exchanges changes that worker
\* only; the vault a write_to_vault created is the vault it writes.
C21_OneWorkerPerCall ==
    [][\A h \in Handles :
        /\ (pc[h] = "idle" /\ call'[h].op \in {"write_to_vault", "delete_data"})
           => call'[h].target = GetTarget /\ workers' = workers
        /\ (pc[h] \in VaultExchanges /\ Stepped(h))
           => /\ pc'[h] # "idle" => call'[h].target = call[h].target
              /\ \A m \in sent'[h] \ sent[h] : m.to = call[h].target
              /\ \A a \in Addrs \ {call[h].target} : workers'[a] = workers[a]
        /\ (pc[h] = "wtv_CreateVault" /\ Stepped(h) /\ Delivered(call[h].target))
           => call[h].location[1] \in workers'[call[h].target].data.keystore
        /\ (pc[h] = "wtv_WriteToVault" /\ Stepped(h) /\ Delivered(call[h].target)
             /\ ret'[h].res = Ok)
           => /\ call[h].location[1] \in workers[call[h].target].data.keystore
              /\ call[h].location \in Live(workers'[call[h].target].data, call[h].location[1])
        /\ (pc[h] = "dd_GarbageCollect" /\ Stepped(h) /\ Delivered(call[h].target)
             /\ ret'[h].res = Ok)
           => call[h].location \notin Stored(workers'[call[h].target].data,
                                             call[h].location[1])]_vars

\* C21 witness: a write_to_vault has found no vault in the worker it
\* resolved and is about to create one, the target being another worker
\* by now, in which the vault is absent as well.
C21_Witness ==
    \E h \in Handles :
        /\ pc[h] = "wtv_CreateVault"
        /\ GetTarget # NoAddr
        /\ GetTarget # call[h].target
        /\ Delivered(GetTarget)
        /\ call[h].location[1] \notin workers[GetTarget].data.keystore

\* C22: a read_snapshot that returns an error leaves the current target
\* as it was when the call was made (entry_target, for a call that has made
\* its first exchange), with a former path as without one.
C22_ErrorKeepsTarget ==
    [][\A h \in Handles :
        (/\ pc'[h] = "idle"
         /\ ret'[h].op = "read_snapshot"
         /\ ret'[h].res.tag = "Err"
         /\ Stepped(h) \/ ret'[h] # ret[h])
        => current_target' = (IF pc[h] = "idle" THEN current_target
                              ELSE call[h].entry_target)]_vars

\* C23: the snapshot a write_all_to_snapshot persists holds a state for
\* exactly the identities of the worker list the call gathered.
C23_ExactlyGathered ==
    [][\A h \in Handles :
        (pc[h] = "wats_WriteSnapshot" /\ Stepped(h))
        => /\ call[h].file \in DOMAIN files'
           /\ DOMAIN files'[call[h].file].state = call[h].listed]_vars

\* C24: in every reachable state the current target is unset or an
\* identity registered in the directory, and no two identities have the
\* same worker, each having one worker at most, a live one; and a
\* spawn_stronghold_actor that returns Ok has made the identity of its path
\* the current target, registered with a worker, at its return.
C24_RegistryInvariant ==
    /\ [](/\ current_target = NoId \/ current_target \in Registered
          /\ \A i, j \in Registered : clients[i] = clients[j] => i = j
          /\ \A i \in Registered : clients[i] \in Addrs)
    /\ [][\A h \in Handles :
            (/\ pc[h] = "spawn_SwitchTarget"
             /\ ret'[h] = [op |-> "spawn_stronghold_actor", res |-> Ok])
            => /\ current_target' = call[h].client_id
               /\ current_target' \in Registered']_vars

\* C24 witness: a kill_stronghold of the current target has returned Ok:
\* the target is unset while another identity is registered.
C24_Witness ==
    \E h \in Handles :
        /\ Returned(h, "kill_stronghold", Ok)
        /\ current_target = NoId
        /\ Registered # {}
        /\ \E g \in Handles : pc[g] = "rs_ReloadData"

\* C18: spawn_p2p with a network actor registered returns Ok(false) and
\* changes nothing; a registered network actor is never replaced by
\* another; and, no network actor being stopped, at most one spawn_p2p has
\* returned Ok(true).
C18_OneNetworkActor ==
    [][/\ \A h \in Handles, r \in Rules :
            (spawn_p2p(h, r) /\ network # NoAddr)
            => /\ ret'[h] = [op |-> "spawn_p2p", res |-> OkVal(FALSE)]
               /\ network' = network
               /\ net_actors' = net_actors
       /\ (network # NoAddr /\ network' # NoAddr) => network' = network
       /\ Cardinality({h \in Handles :
                         ret'[h] = [op |-> "spawn_p2p", res |-> OkVal(TRUE)]}) <= 1]_vars

====
